---------------------------- MODULE Spec2Model ----------------------------
(***************************************************************************)
(* A model of sapphire/analysis/process_events.py: the arrival-time        *)
(* reconstruction of a trace (nearest sample and linear interpolation)     *)
(* and the batch pipeline of ProcessEvents and its subclasses over the     *)
(* tables of one PyTables group.                                           *)
(*                                                                         *)
(* Numbers.  The source computes arrival times in floating point.  Here a  *)
(* time is an exact rational, a not-a-number or an infinity:               *)
(*     [kind |-> "num", num |-> n, den |-> d]   n/d, d > 0                 *)
(*     [kind |-> "nan"]                                                    *)
(*     [kind |-> "inf", sign |-> 1 or -1]                                  *)
(* Times returned by the reconstruction are in picoseconds (2.5e-9 s is    *)
(* 2500 ps); the timing columns of a table are in nanoseconds.  Rounding   *)
(* of the floating point operations is not modelled.                       *)
(***************************************************************************)
EXTENDS Integers, Sequences, FiniteSets, TLC

VARIABLES
    group,      \* the tables of the group, by name
    obj,        \* the ProcessEvents object in use
    pc,         \* where process_and_store_results is: "idle" outside a call
    call,       \* the arguments of the call in progress, or of the last one
    outcome,    \* how the last call ended
    calls,      \* the number of calls made
    hist,       \* history: the group when the call and its publish step began
    trace,      \* timing harness: the waveform handed to the reconstruction
    baseline,   \* timing harness: its baseline
    tpc,        \* timing harness: "off", "input", "nearest", "both"
    t_nearest,  \* timing harness: result of ProcessEvents._reconstruct_time_from_trace
    t_lint,     \* timing harness: result of ProcessEventsWithLINT._reconstruct_time_from_trace
    upc,        \* function harnesses: "off", or what was applied to the input
    input,      \* function harnesses: the argument
    output      \* function harnesses: the result

pipeline == <<group, obj, pc, call, outcome, calls, hist>>

timing == <<trace, baseline, tpc, t_nearest, t_lint>>

units == <<upc, input, output>>

vars == <<group, obj, pc, call, outcome, calls, hist,
          trace, baseline, tpc, t_nearest, t_lint, upc, input, output>>

-----------------------------------------------------------------------------
(* Module constants of process_events.py *)

ADC_THRESHOLD == 20

\* 2.5e-9 s, in picoseconds
ADC_TIME_PER_SAMPLE == 2500

-----------------------------------------------------------------------------
(* Floating point values *)

NaN == [kind |-> "nan"]

Inf(s) == [kind |-> "inf", sign |-> s]

\* the rational n/d with the sign carried by the numerator
Num(n, d) == IF d < 0 THEN [kind |-> "num", num |-> -n, den |-> -d]
                      ELSE [kind |-> "num", num |-> n, den |-> d]

IsNan(v) == v.kind = "nan"

IsNum(v) == v.kind = "num"

\* v * k for an integer k > 0
Scale(v, k) == IF v.kind = "num" THEN Num(v.num * k, v.den) ELSE v

\* a <= b and a < b for two rationals
Leq(a, b) == a.num * b.den <= b.num * a.den

Less(a, b) == a.num * b.den < b.num * a.den

\* a - b for two rationals
Minus(a, b) == Num(a.num * b.den - b.num * a.den, a.den * b.den)

\* numpy's float / integer: a zero divisor gives an infinity or not-a-number
FloatDiv(n, d) ==
    IF d # 0 THEN Num(n, d)
    ELSE IF n > 0 THEN Inf(1)
    ELSE IF n < 0 THEN Inf(-1)
    ELSE NaN

\* v + k for an integer k
PlusInt(v, k) == IF v.kind = "num" THEN Num(v.num + k * v.den, v.den) ELSE v

\* seq[k] with Python's indexing: from 0, a negative k counts from the end
PyIndex(seq, k) == IF k < 0 THEN seq[Len(seq) + k + 1] ELSE seq[k + 1]

-----------------------------------------------------------------------------
(* Arrival time of one trace *)

RECURSIVE first_crossing_strict(_, _, _)
first_crossing_strict(tr, threshold, i) ==
    IF i >= Len(tr) THEN -1
    ELSE IF PyIndex(tr, i) > threshold THEN i
    ELSE first_crossing_strict(tr, threshold, i + 1)

\* the loop "for i, t in enumerate(trace): if t >= threshold: ... break":
\* the index it breaks at, from i on, or -1 when it runs to the end
RECURSIVE first_crossing(_, _, _)
first_crossing(tr, threshold, i) ==
    IF i >= Len(tr) THEN -1
    ELSE IF PyIndex(tr, i) >= threshold THEN i
    ELSE first_crossing(tr, threshold, i + 1)

\* ProcessEvents._reconstruct_time_from_trace
reconstruct_time_from_trace(tr, bl) ==
    LET threshold == bl + ADC_THRESHOLD
        i == first_crossing(tr, threshold, 0)
        value == IF i < 0 THEN NaN ELSE Num(i, 1)
    IN  Scale(value, ADC_TIME_PER_SAMPLE)

LINT_upper_sample(tr, bl) ==
    LET threshold == bl + ADC_THRESHOLD
        i == first_crossing(tr, threshold, 0)
        x1 == i
        y0 == PyIndex(tr, i - 1)
        y1 == PyIndex(tr, i)
        value == IF i < 0 THEN NaN
                 ELSE PlusInt(FloatDiv(threshold - y0, y1 - y0), x1)
    IN  Scale(value, ADC_TIME_PER_SAMPLE)

\* ProcessEventsWithLINT._reconstruct_time_from_trace
LINT_reconstruct_time_from_trace(tr, bl) ==
    LET threshold == bl + ADC_THRESHOLD
        i == first_crossing(tr, threshold, 0)
        x0 == i - 1
        x1 == i
        y0 == PyIndex(tr, x0)
        y1 == PyIndex(tr, x1)
        value == IF i < 0 THEN NaN
                 ELSE PlusInt(FloatDiv(threshold - y0, y1 - y0), x0)
    IN  Scale(value, ADC_TIME_PER_SAMPLE)

-----------------------------------------------------------------------------
(* The MIP peak finder.  Pulse values and bin edges are integers, and so    *)
(* are the counts, their moving averages and the differences of these; the *)
(* smoothed derivative is the array of doubles that np.convolve makes of   *)
(* them.  A scan that raises IndexError gives a negative bin.              *)

RECURSIVE SumTo(_, _, _)
\* f[a] + ... + f[b], summed by halves
SumTo(f, a, b) ==
    IF a > b THEN 0
    ELSE IF a = b THEN f[a]
    ELSE LET m == (a + b) \div 2 IN SumTo(f, a, m) + SumTo(f, m + 1, b)

\* the sequence s, held as a tuple of its values
Array(s) == s \o <<>>

\* np.arange(lo, hi, step)
arange(lo, hi, step) ==
    Array([k \in 1..((hi - lo + step - 1) \div step) |-> lo + (k - 1) * step])

\* np.histogram(values, bins=bins)[0]: the last bin is closed on the right,
\* values outside the edges are dropped
histogram(values, bins) ==
    Array([k \in 1..(Len(bins) - 1) |->
        Cardinality({r \in 1..Len(values) :
            /\ bins[k] <= values[r]
            /\ \/ values[r] < bins[k + 1]
               \/ k = Len(bins) - 1 /\ values[r] = bins[k + 1]})])

\* ProcessEvents.findBinNextMinimum.  The loop runs i from startBin and
\* returns i - 1 at the first bin whose value is above minY, the least value
\* of the bins startBin..i-1; reading y[len(y)] raises IndexError.
findBinNextMinimum(y, startBin) ==
    LET rises == {i \in (startBin + 1)..(Len(y) - 1) :
                     \E j \in startBin..(i - 1) : y[i + 1] > y[j + 1]}
    IN  IF startBin >= Len(y) \/ rises = {} THEN -1
        ELSE (CHOOSE i \in rises : \A k \in rises : i <= k) - 1

\* ProcessEvents.findBinNextMaximum.  The loop runs i from startBin and
\* returns i - 1 at the first bin whose value is below maxY, the greatest
\* value of the bins startBin..i-1; reading y[len(y)] raises IndexError.
findBinNextMaximum(y, startBin) ==
    LET falls == {i \in (startBin + 1)..(Len(y) - 1) :
                     \E j \in startBin..(i - 1) : y[i + 1] < y[j + 1]}
    IN  IF startBin >= Len(y) \/ falls = {} THEN -1
        ELSE (CHOOSE i \in falls : \A k \in falls : i <= k) - 1

\* ProcessEvents.smooth_forward: sum / n is an integer division, y holds
\* the integer counts of a histogram
smooth_forward(y, n) ==
    Array([i \in 1..(IF Len(y) > n THEN Len(y) - n ELSE 0) |->
              SumTo(y, i, i + n - 1) \div n])

\* the value of i after "for i in range(n): if x[i] > 120: break", from 0
RECURSIVE first_above_120(_, _, _)
first_above_120(x, n, i) ==
    IF i >= n - 1 THEN n - 1
    ELSE IF x[i + 1] > 120 THEN i
    ELSE first_above_120(x, n, i + 1)

\* getFitParameters, "Rebin x": x_rebinned, the means of the pairs of x, x
\* taking one more value when its length is odd.  The means are kept times
\* 2, which are integers.
rebin_x(x) ==
    Array([k \in 1..((Len(x) + 1) \div 2) |->
        IF 2 * k <= Len(x) THEN x[2 * k - 1] + x[2 * k]
        ELSE x[Len(x)] + x[Len(x)] + x[2] - x[1]])

\* getFitParameters, "y_smoothed[i] = 0" after the loop that stops at the
\* first x above 120
cut_at_120(x, y_smoothed) ==
    [y_smoothed EXCEPT ![first_above_120(x, Len(y_smoothed), 0) + 1] = 0]

\* getFitParameters, y_smoothed_rebinned: the sums of the pairs of
\* y_smoothed, which takes a 0 more when its length is odd
rebin_y(y_smoothed) ==
    Array([k \in 1..((Len(y_smoothed) + 1) \div 2) |->
        IF 2 * k <= Len(y_smoothed)
        THEN y_smoothed[2 * k - 1] + y_smoothed[2 * k]
        ELSE y_smoothed[2 * k - 1]])

\* np.diff
diff(v) == Array([k \in 1..(Len(v) - 1) |-> v[k + 1] - v[k]])

\* getFitParameters, "for i in range(len(y_diff)): if x_rebinned[i] > 120:
\* break; y_diff[i] = 0": the bins before the first x above 120 become 0
\* (x_rebinned is held times 2)
zero_below_120(x_rebinned, y_diff) ==
    Array([k \in 1..Len(y_diff) |->
        IF \E j \in 1..k : x_rebinned[j] > 240 THEN y_diff[k] ELSE 0])

\* The doubles of np.convolve.  Every one of them is a sum of products of
\* 0.2 and an integer, so it is near K/5 for an integer K: the double
\* K/5 + e * 2^-55 / 5 is held as [K |-> K, e |-> e], e being the rounding
\* it has gathered.  0.2 itself is the double (2^54 + 1) / (5 * 2^54).
\* The sums are those of numpy's own loop, DOUBLE_dot, on IEEE 754 doubles.

\* the doubles between two powers of 2 are 2^(p - 55) apart (5 * 2^p in
\* the unit of e): p for the doubles around a number of the magnitude
\* magnitude/5, found from p on; outward is not negative when the roundings
\* so far have left the number at or beyond magnitude/5
RECURSIVE spacing_exponent(_, _, _)
spacing_exponent(magnitude, outward, p) ==
    IF \/ 4 * magnitude > 5 * 2^p
       \/ 4 * magnitude = 5 * 2^p /\ outward >= 0
    THEN spacing_exponent(magnitude, outward, p + 1)
    ELSE p

\* the nearer of the two doubles around K/5 + e * 2^-55 / 5, which is at
\* `above` over the lower of them; half way, the one with the even mantissa
nearest_double(K, e, p, spacing, above) ==
    IF \/ 2 * above < spacing
       \/ /\ 2 * above = spacing
          /\ (2^(p + 1) * ((K * 2^((54 - p) % 4)) % 5) + e - above)
                 % (2 * spacing) = 0
    THEN [K |-> K, e |-> e - above]
    ELSE [K |-> K, e |-> e + spacing - above]

\* the same, from the exponent of the spacing on: 2^55 is 2^p times
\* 2^(55 - p), and the powers of 2 are 1, 2, 4, 3 modulo 5 in turn
round_in_spacing(K, e, p) ==
    nearest_double(K, e, p, 5 * 2^p,
                   (2^p * ((K * 2^((55 - p) % 4)) % 5) + e) % (5 * 2^p))

\* IEEE 754 rounding of the real number K/5 + e * 2^-55 / 5: the nearest
\* double, the one with the even mantissa of the two when it is half way.
\* With K = 0 the number is a difference of doubles of this size and is a
\* double.
round_to_double(K, e) ==
    IF K = 0 THEN [K |-> 0, e |-> e]
    ELSE round_in_spacing(K, e,
             spacing_exponent(IF K < 0 THEN -K ELSE K,
                              IF K < 0 THEN -e ELSE e, 0))

\* the sum of two doubles, as a double
plus(a, b) == round_to_double(a.K + b.K, a.e + b.e)

\* numpy's dot of n values with n values of the kernel: "tmp = 0.0", then
\* "tmp += ip1[i] * ip2[i]" for each in turn, the product of the value and
\* the double 0.2 and the sum each rounded to a double (no fused
\* multiply-add)
RECURSIVE dot(_, _)
dot(values, n) ==
    IF n = 0 THEN [K |-> 0, e |-> 0]
    ELSE plus(dot(values, n - 1),
              round_to_double(values[n], 2 * values[n]))

\* value i (from 1) of np.convolve(v, [0.2] * 5, "same"), made of the
\* values first..last of v in the order numpy takes them: numpy correlates
\* the longer of the two arrays with the other one reversed, so it goes up
\* through v[i - 2] .. v[i + 2], or, when v is the shorter one, down through
\* v and up through the kernel
convolved_value(v, i, first, last) ==
    dot([k \in 1..(last - first + 1) |->
            IF Len(v) >= 5 THEN v[first + k - 1]
            ELSE v[Len(v) - (first + k - 1)]],
        last - first + 1)

\* np.convolve(v, [0.2] * 5, "same"), v not empty: as long as the longer of
\* the two arrays, so 5 values when v has fewer
convolve_same(v) ==
    IF Len(v) >= 5
    THEN Array([i \in 1..Len(v) |->
             convolved_value(v, i, IF i > 2 THEN i - 2 ELSE 1,
                             IF i + 2 < Len(v) THEN i + 2 ELSE Len(v))])
    ELSE Array([i \in 1..5 |->
             convolved_value(v, i,
                 IF Len(v) \div 2 > i - 1
                 THEN Len(v) \div 2 - (i - 1) ELSE 0,
                 IF 4 + Len(v) \div 2 - (i - 1) < Len(v) - 1
                 THEN 4 + Len(v) \div 2 - (i - 1) ELSE Len(v) - 1)])

\* the scans only compare the doubles: each is handed to them as an integer,
\* in the order of the doubles (e stays far below 2^19, K below 2^11)
comparable(doubles) ==
    Array([k \in 1..Len(doubles) |->
              doubles[k].K * 1048576 + doubles[k].e])

\* getFitParameters up to y_diff, before the bins below 120 are set to 0
y_diff_of(x, y) == diff(rebin_y(cut_at_120(x, smooth_forward(y, 5))))

\* getFitParameters up to y_diff_smoothed
y_diff_smoothed(x, y) ==
    convolve_same(zero_below_120(rebin_x(x), y_diff_of(x, y)))

\* a number of quarters: the integer, or the fraction it is
of_quarters(q) ==
    IF q % 4 = 0 THEN q \div 4
    ELSE IF q % 2 = 0 THEN [num |-> q \div 2, den |-> 2]
    ELSE [num |-> q, den |-> 4]

\* getFitParameters, its return statement, maxX and minX times 2: the three
\* values come in quarters; they are returned as numbers, and in quarters
\* for the arithmetic of _pulse_gauss_fit
peak_and_range(maxX, minX, bias) ==
    [ok |-> TRUE, error |-> "none",
     peak |-> of_quarters(maxX + minX + 4 * bias),
     minRange |-> of_quarters(2 * maxX + 4 * bias),
     maxRange |-> of_quarters(2 * minX + 4 * bias),
     quarters |-> [peak |-> maxX + minX + 4 * bias,
                   minRange |-> 2 * maxX + 4 * bias,
                   maxRange |-> 2 * minX + 4 * bias]]

\* the three scans of getFitParameters in their order: the bin each one
\* returns, negative for the scan that raises IndexError and the scans that
\* are then not made
extremum_scans(derivative) ==
    LET first == findBinNextMinimum(derivative, 0)
        second == IF first < 0 THEN -1
                  ELSE findBinNextMaximum(derivative, first)
        third == IF second < 0 THEN -1
                 ELSE findBinNextMinimum(derivative, second)
    IN  <<first, second, third>>

\* getFitParameters, from the scans on: IndexError when one of them
\* raised, or when "maxX = x_rebinned[binMaximum]" or "minX =
\* x_rebinned[binMinimum]" reads past x_rebinned, which is held times 2
fit_parameters(x_rebinned, bias, scans) ==
    IF scans[3] < 0 THEN [ok |-> FALSE, error |-> "IndexError"]
    ELSE IF scans[2] >= Len(x_rebinned) \/ scans[3] >= Len(x_rebinned)
    THEN [ok |-> FALSE, error |-> "IndexError"]
    ELSE peak_and_range(x_rebinned[scans[2] + 1], x_rebinned[scans[3] + 1],
                        bias)

\* getFitParameters from y_diff on: the loop that sets the bins below 120
\* to 0 reads x_rebinned[i] and raises IndexError past its end; np.convolve
\* raises ValueError on an empty y_diff; the scans compare the doubles of
\* y_diff_smoothed
fit_parameters_of_y_diff(x, x_rebinned, y_diff) ==
    IF /\ Len(y_diff) > Len(x_rebinned)
       /\ \A j \in 1..Len(x_rebinned) : x_rebinned[j] <= 240
    THEN [ok |-> FALSE, error |-> "IndexError"]
    ELSE IF Len(y_diff) = 0 THEN [ok |-> FALSE, error |-> "ValueError"]
    ELSE fit_parameters(x_rebinned, (x[2] - x[1]) * 2,
             extremum_scans(comparable(
                 convolve_same(zero_below_120(x_rebinned, y_diff)))))

\* ProcessEvents.getFitParameters: [ok |-> FALSE] with the error when it
\* raises, else the peak and the range it returns.  "bias" reads x[1]; with
\* 5 counts or fewer y_smoothed is empty, its loop binds no i, and
\* "y_smoothed[i] = 0" raises UnboundLocalError; the loop reads x[i] and
\* raises IndexError past the end of x.
getFitParameters(x, y) ==
    IF Len(x) < 2 THEN [ok |-> FALSE, error |-> "IndexError"]
    ELSE IF Len(y) <= 5 THEN [ok |-> FALSE, error |-> "UnboundLocalError"]
    ELSE IF Len(y) - 5 > Len(x) /\ \A i \in 1..Len(x) : x[i] <= 120
    THEN [ok |-> FALSE, error |-> "IndexError"]
    ELSE fit_parameters_of_y_diff(x, rebin_x(x), y_diff_of(x, y))

\* the result of scipy's leastsq on the residual of a Gauss curve: the
\* fitted mean, kept as the term of what it was computed from
leastsq_mean(initial, window_x, window_y) ==
    [fit |-> "leastsq", initial |-> initial, x |-> window_x, y |-> window_y]

\* the values of v at the bins where minRange <= pulsecount <= maxRange,
\* the two bounds in quarters
fit_window(pulsecount, v, minRange, maxRange) ==
    LET before == Cardinality({k \in 1..Len(pulsecount) :
                                  4 * pulsecount[k] < minRange})
        inside == Cardinality({k \in 1..Len(pulsecount) :
                                  /\ ~(4 * pulsecount[k] < minRange)
                                  /\ ~(4 * pulsecount[k] > maxRange)})
    IN  [k \in 1..inside |-> v[before + k]]

\* _pulse_gauss_fit from the width check on: the null fit, or the fit
\* seeded with the width, the width and the bounds in quarters
fit_of_width(pulsecount, occurence, peak, width, minRange, maxRange) ==
    IF width <= 160
    THEN [kind |-> "return", width |-> of_quarters(width)]
    ELSE [kind |-> "mpv",
          mpv |-> leastsq_mean(
                      <<16, peak, of_quarters(width)>>,
                      fit_window(pulsecount, pulsecount, minRange, maxRange),
                      fit_window(pulsecount, occurence, minRange, maxRange))]

\* the same, were the width the whole width of the window
fit_in_window_whole(pulsecount, occurence, fp) ==
    IF ~fp.ok THEN [kind |-> "raise", error |-> fp.error]
    ELSE fit_of_width(pulsecount, occurence, fp.peak,
                      fp.quarters.maxRange - fp.quarters.minRange,
                      fp.quarters.minRange, fp.quarters.maxRange)

\* one pass of the loop of _pulse_gauss_fit from the width check on: what
\* getFitParameters raised, or the fit of "width = peak - minRange"
fit_in_window(pulsecount, occurence, fp) ==
    IF ~fp.ok THEN [kind |-> "raise", error |-> fp.error]
    ELSE fit_of_width(pulsecount, occurence, fp.peak,
                      fp.quarters.peak - fp.quarters.minRange,
                      fp.quarters.minRange, fp.quarters.maxRange)

\* (pulsecount * occurence).sum() / occurence.sum(): numpy's integer
\* division gives 0 for a zero divisor
average_pulsecount(pulsecount, occurence) ==
    IF SumTo(occurence, 1, Len(occurence)) = 0 THEN 0
    ELSE SumTo(Array([k \in 1..Len(occurence) |->
                         pulsecount[k] * occurence[k]]), 1, Len(occurence))
             \div SumTo(occurence, 1, Len(occurence))

\* one pass of the loop of _pulse_gauss_fit from the histogram on
fit_of_histogram(pulsecount, occurence) ==
    IF average_pulsecount(pulsecount, occurence) < 100
    THEN [kind |-> "raise", error |-> "ValueError"]
    ELSE fit_in_window(pulsecount, occurence,
                       getFitParameters(pulsecount, occurence))

\* one pass of the loop of _pulse_gauss_fit, for detector i (from 1):
\*   [kind |-> "raise", error |-> ...]   the pass raises
\*   [kind |-> "return", width |-> w]    the pass returns the null fit
\*   [kind |-> "mpv", mpv |-> m]         the pass appends m
pulse_gauss_fit_detector(pulsecounts, bins, i) ==
    fit_of_histogram(
        Array([k \in 1..(Len(bins) - 1) |-> (bins[k] + bins[k + 1]) \div 2]),
        histogram([r \in 1..Len(pulsecounts) |-> pulsecounts[r][i]], bins))

\* the loop of _pulse_gauss_fit over the detectors from i on, mpv holding
\* the values appended so far: the first pass that raises or returns ends it
RECURSIVE pulse_gauss_fit_from(_, _, _, _)
pulse_gauss_fit_from(pulsecounts, bins, i, mpv) ==
    IF i > Len(pulsecounts[1]) THEN [kind |-> "mpv", mpv |-> mpv]
    ELSE LET pass == pulse_gauss_fit_detector(pulsecounts, bins, i) IN
         IF pass.kind = "mpv"
         THEN pulse_gauss_fit_from(pulsecounts, bins, i + 1,
                                   Append(mpv, pass.mpv))
         ELSE pass

\* ProcessEvents._pulse_gauss_fit; len(pulsecounts[0]) raises on no rows
pulse_gauss_fit(pulsecounts, bins) ==
    IF Len(pulsecounts) = 0 THEN [kind |-> "raise", error |-> "IndexError"]
    ELSE pulse_gauss_fit_from(pulsecounts, bins, 1, <<>>)

-----------------------------------------------------------------------------
(* The event data of the harness: a catalogue of events (the source        *)
(* columns of a row of an events table) and the blobs array of the group.  *)

Detectors == 1..4

\* a field of the decompressed text of a blob, split at the commas
IntField(n) == [kind |-> "int", val |-> n]

EmptyField == [kind |-> "empty", val |-> 0]

TextField == [kind |-> "text", val |-> 0]

\* group.blobs, each blob as the fields of its decompressed text
Blobs == <<
    <<IntField(10), IntField(0), IntField(25), IntField(40), EmptyField>>,
    <<IntField(0), IntField(0), IntField(0)>>,
    <<IntField(40), IntField(50), EmptyField>>,
    <<IntField(25), IntField(25), EmptyField>>,
    <<IntField(12), TextField, IntField(3), EmptyField>>,
    <<IntField(0), IntField(30), EmptyField>> >>

\* the events: baseline, pulseheights and traces of the four detectors
EventData == <<
    [baseline |-> <<5, 5, 0, 0>>, pulseheights |-> <<205, 215, 225, 235>>,
     traces |-> <<0, 1, 2, 3>>],
    [baseline |-> <<0, 5, 5, 5>>, pulseheights |-> <<203, 211, 229, 238>>,
     traces |-> <<0, 0, 2, 3>>],
    [baseline |-> <<0, 0, 0, 0>>, pulseheights |-> <<207, 219, 221, 10>>,
     traces |-> <<2, 0, 1, -1>>],
    [baseline |-> <<0, 0, 0, 0>>, pulseheights |-> <<50, 60, 10, 10>>,
     traces |-> <<0, 0, -1, -1>>],
    [baseline |-> <<5, 5, 0, 0>>, pulseheights |-> <<205, 215, 225, 235>>,
     traces |-> <<0, 4, 2, 3>>] >>

\* the rows of the events tables a group may start with, as event numbers:
\* one that processes, one whose pulseheights are too low to calibrate, one
\* with a blob that does not decode
GoodRows == <<1, 2, 1, 2, 1, 3>>

LowRows == <<4, 4, 4>>

CorruptRows == <<1, 2, 5, 2, 1, 1>>

InitialRows == {GoodRows, LowRows, CorruptRows}

-----------------------------------------------------------------------------
(* Tables.  A table is its column set ("raw": the columns of HisparcEvent, *)
(* "processed": those plus t1..t4 and n1..n4) and its rows; a raw row is   *)
(* [ev], a processed row [ev, t, n] with t and n one value per detector.   *)

NoTable == [cols |-> "absent", rows |-> <<>>]

\* the default of the t and n columns of ProcessedHisparcEvent
DefaultValue == [kind |-> "dflt"]

DefaultRow == [ev |-> 0,
               t |-> [d \in Detectors |-> DefaultValue],
               n |-> [d \in Detectors |-> DefaultValue]]

RawTable(ids) == [cols |-> "raw", rows |-> [r \in 1..Len(ids) |-> [ev |-> ids[r]]]]

\* seq[:limit] of Python, limit being <<>> for None or <<n>>, n >= 0
Slice(seq, limit) ==
    IF limit = <<>> \/ limit[1] >= Len(seq) THEN seq
    ELSE SubSeq(seq, 1, limit[1])

\* "if self.limit:"
Truthy(limit) == limit # <<>> /\ limit[1] # 0

-----------------------------------------------------------------------------
(* Timings of the events of a table *)

\* "if trace[-1] == '': del trace[-1]" on the fields of the text
without_last_empty_never(fields) == fields

without_last_empty(fields) ==
    IF Len(fields) > 0 /\ fields[Len(fields)].kind = "empty"
    THEN SubSeq(fields, 1, Len(fields) - 1) ELSE fields

\* ProcessEvents._get_trace from the split on: [ok |-> FALSE] when int()
\* raises on a field
trace_of_fields(fields) ==
    LET kept == without_last_empty(fields)
    IN  IF \E k \in 1..Len(kept) : kept[k].kind # "int"
        THEN [ok |-> FALSE, trace |-> <<>>]
        ELSE [ok |-> TRUE, trace |-> [k \in 1..Len(kept) |-> kept[k].val]]

\* ProcessEvents._get_trace: [ok |-> FALSE] when it raises
get_trace(idx) ==
    IF idx >= Len(Blobs) \/ idx < -Len(Blobs) THEN [ok |-> FALSE, trace |-> <<>>]
    ELSE trace_of_fields(PyIndex(Blobs, idx))

\* _reconstruct_time_from_trace of the class: lint selects ProcessEventsWithLINT
reconstruct_time(lint, tr, bl) ==
    IF lint THEN LINT_reconstruct_time_from_trace(tr, bl)
    ELSE reconstruct_time_from_trace(tr, bl)

\* the loop of _reconstruct_time_from_traces over the slots from d on: the
\* indexes _get_trace is called with, in order, a call that raises being the
\* last.  Only the pulseheight of a slot decides whether its trace is read.
RECURSIVE traces_read_by_reconstruct(_, _)
traces_read_by_reconstruct(event, d) ==
    IF d > Len(event.traces) THEN <<>>
    ELSE IF event.pulseheights[d] < ADC_THRESHOLD
    THEN traces_read_by_reconstruct(event, d + 1)
    ELSE IF ~get_trace(event.traces[d]).ok
    THEN <<[slot |-> d, idx |-> event.traces[d]]>>
    ELSE <<[slot |-> d, idx |-> event.traces[d]]>>
             \o traces_read_by_reconstruct(event, d + 1)

\* ProcessEvents._reconstruct_time_from_traces on an event
reconstruct_time_from_event(lint, event) ==
    LET decoded == [d \in Detectors |-> get_trace(event.traces[d])]
        silent(d) == event.pulseheights[d] < ADC_THRESHOLD
    IN  IF \E d \in Detectors : ~silent(d) /\ ~decoded[d].ok
        THEN [ok |-> FALSE, timings |-> <<>>]
        ELSE [ok |-> TRUE,
              timings |-> [d \in Detectors |->
                  IF silent(d) THEN NaN
                  ELSE reconstruct_time(lint, decoded[d].trace,
                                        event.baseline[d])]]

\* the source columns of a row that was appended to a ProcessedHisparcEvent
\* table and not filled: no pulse, no trace recorded
DefaultEvent ==
    [baseline |-> [d \in Detectors |-> -1],
     pulseheights |-> [d \in Detectors |-> -1],
     traces |-> [d \in Detectors |-> -1]]

\* the event numbered ev, 0 being the number of a row that was not filled
event_of(ev) == IF ev = 0 THEN DefaultEvent ELSE EventData[ev]

\* ProcessEvents._reconstruct_time_from_traces for the event numbered ev
reconstruct_time_from_traces(lint, ev) ==
    reconstruct_time_from_event(lint, event_of(ev))

\* the loop of get_traces_for_event over the slots from d on: the indexes
\* _get_trace is called with, in order, a call that raises being the last
RECURSIVE traces_read_by_get_traces(_, _)
traces_read_by_get_traces(event, d) ==
    IF d > Len(event.traces) THEN <<>>
    ELSE IF event.traces[d] < 0
    THEN traces_read_by_get_traces(event, d + 1)
    ELSE IF ~get_trace(event.traces[d]).ok
    THEN <<[slot |-> d, idx |-> event.traces[d]]>>
    ELSE <<[slot |-> d, idx |-> event.traces[d]]>>
             \o traces_read_by_get_traces(event, d + 1)

\* np.array(traces).T: row i holds sample i of each trace; traces that
\* differ in length make an array of one dimension, which is its own
\* transpose
transposed(traces) ==
    IF traces = <<>> THEN <<>>
    ELSE IF \E k \in 1..Len(traces) : Len(traces[k]) # Len(traces[1])
    THEN traces
    ELSE [i \in 1..Len(traces[1]) |-> [k \in 1..Len(traces) |-> traces[k][i]]]

\* ProcessEvents.get_traces_for_event: the traces of the slots whose index
\* is not negative, one column per trace
get_traces_for_event(event) ==
    LET kept == traces_read_by_get_traces(event, 1)
    IN  IF \E k \in 1..Len(kept) : ~get_trace(kept[k].idx).ok
        THEN [ok |-> FALSE, traces |-> <<>>]
        ELSE [ok |-> TRUE,
              traces |-> transposed([k \in 1..Len(kept) |->
                                       get_trace(kept[k].idx).trace])]

\* np.where(np.isnan(result), -999, 1e9 * result) on one value: picoseconds
\* to nanoseconds
to_column_value(v) ==
    IF v.kind = "nan" THEN Num(-999, 1)
    ELSE IF v.kind = "num" THEN Num(v.num, v.den * 1000)
    ELSE v

\* ProcessEvents._process_traces_from_event_list on the rows `events`
process_traces_from_event_list(lint, events) ==
    LET result == [r \in 1..Len(events) |->
                      reconstruct_time_from_traces(lint, events[r].ev)]
    IN  IF \E r \in 1..Len(events) : ~result[r].ok
        THEN [ok |-> FALSE, timings |-> <<>>]
        ELSE [ok |-> TRUE,
              timings |-> [r \in 1..Len(events) |->
                  [d \in Detectors |-> to_column_value(result[r].timings[d])]]]

-----------------------------------------------------------------------------
(* The text of a blob.  A text is the sequence of its characters; a blob   *)
(* is a zlib stream of a text, or bytes that are no zlib stream.           *)

Digits == <<"0", "1", "2", "3", "4", "5", "6", "7", "8", "9">>

IsDigit(c) == \E d \in 1..10 : Digits[d] = c

DigitValue(c) == (CHOOSE d \in 1..10 : Digits[d] = c) - 1

\* str(n) for a natural n, and for an integer
RECURSIVE str_of_natural(_)
str_of_natural(n) ==
    IF n < 10 THEN <<Digits[n + 1]>>
    ELSE Append(str_of_natural(n \div 10), Digits[(n % 10) + 1])

str_of(n) == IF n < 0 THEN <<"-">> \o str_of_natural(-n) ELSE str_of_natural(n)

\* the text of a trace as it is stored: the values in decimal with a comma
\* between them, and one after the last when `trailing`
RECURSIVE text_of_trace(_, _)
text_of_trace(values, trailing) ==
    IF values = <<>> THEN <<>>
    ELSE IF Len(values) = 1
    THEN str_of(values[1]) \o (IF trailing THEN <<",">> ELSE <<>>)
    ELSE str_of(values[1]) \o <<",">> \o text_of_trace(Tail(values), trailing)

\* zlib.compress and zlib.decompress: [ok |-> FALSE] when decompress raises
compress(text) == [zlib |-> TRUE, text |-> text]

NoStream == [zlib |-> FALSE, text |-> <<>>]

decompress(blob) == [ok |-> blob.zlib, text |-> blob.text]

\* text.split(','): the texts between the commas, one more than there are
\* commas
RECURSIVE split(_)
split(text) ==
    IF \A k \in 1..Len(text) : text[k] # ","
    THEN <<text>>
    ELSE LET comma == CHOOSE k \in 1..Len(text) :
                          text[k] = "," /\ \A j \in 1..(k - 1) : text[j] # ","
         IN  <<SubSeq(text, 1, comma - 1)>>
                 \o split(SubSeq(text, comma + 1, Len(text)))

\* text.strip() for the whitespace " "
strip(text) ==
    LET inked == {k \in 1..Len(text) : text[k] # " "}
    IN  IF inked = {} THEN <<>>
        ELSE SubSeq(text, CHOOSE k \in inked : \A j \in inked : k <= j,
                    CHOOSE k \in inked : \A j \in inked : k >= j)

\* the value of a sequence of digits
RECURSIVE value_of_digits(_)
value_of_digits(digits) ==
    IF digits = <<>> THEN 0
    ELSE 10 * value_of_digits(SubSeq(digits, 1, Len(digits) - 1))
             + DigitValue(digits[Len(digits)])

\* int(x) of _get_trace on a field of the text, as Python 2 reads it:
\* whitespace around, a sign, whitespace again, then digits and nothing else
field_of(x) ==
    LET stripped == strip(x)
        signed == stripped # <<>> /\ stripped[1] \in {"-", "+"}
        digits == IF signed THEN strip(Tail(stripped)) ELSE stripped
    IN  IF x = <<>> THEN EmptyField
        ELSE IF digits = <<>> \/ \E k \in 1..Len(digits) : ~IsDigit(digits[k])
        THEN TextField
        ELSE IF signed /\ stripped[1] = "-"
        THEN IntField(-value_of_digits(digits))
        ELSE IntField(value_of_digits(digits))

\* ProcessEvents._get_trace on a blob of the array
get_trace_of_blob(blob) ==
    IF ~decompress(blob).ok THEN [ok |-> FALSE, trace |-> <<>>]
    ELSE LET texts == split(decompress(blob).text)
         IN  trace_of_fields([k \in 1..Len(texts) |-> field_of(texts[k])])

-----------------------------------------------------------------------------
(* Particle counts of the events of a table *)

\* the bins of _process_pulseheights
PulseheightBins == arange(0, 5000, 10)

\* the pulseheights of the first rows of the tables the group starts with,
\* and what _pulse_gauss_fit makes of each: every population that
\* _process_pulseheights meets is one of them, so this is computed once
Populations ==
    UNION {{[r \in 1..n |-> EventData[ids[r]].pulseheights] : n \in 0..Len(ids)} :
              ids \in InitialRows}

FitOfPopulation ==
    [p \in Populations |-> pulse_gauss_fit(p, PulseheightBins)] @@ <<>>

\* pulseheights / mpv on one value, kept as the term of its operands
Ratio(pulseheight, mpv) == [ph |-> pulseheight, mpv |-> mpv]

\* ProcessEvents._process_pulseheights on the pulseheights column of the
\* source: [ok |-> FALSE] when it raises, with the error: that of the fit,
\* or the ValueError of the division of the (rows, 4) array by the tuple
\* that the null fit returns
process_pulseheights(column, limit) ==
    LET pulseheights == Slice(column, limit)
        bins == PulseheightBins
        mpv == IF pulseheights \in DOMAIN FitOfPopulation
               THEN FitOfPopulation[pulseheights]
               ELSE pulse_gauss_fit(pulseheights, bins)
    IN  IF mpv.kind = "raise"
        THEN [ok |-> FALSE, error |-> mpv.error, n_particles |-> <<>>]
        ELSE IF mpv.kind = "return"
        THEN [ok |-> FALSE, error |-> "ValueError", n_particles |-> <<>>]
        ELSE [ok |-> TRUE, error |-> "none",
              n_particles |-> [r \in 1..Len(pulseheights) |->
                  [d \in 1..Len(pulseheights[r]) |->
                      Ratio(pulseheights[r][d], mpv.mpv[d])]]]

-----------------------------------------------------------------------------
(* The group and the ProcessEvents object.  A handle on a table (a PyTables  *)
(* node) is the name the table has now, or "closed" once the table is      *)
(* removed: a rename moves the handles on the table with it.               *)

TableNames == {"events", "_events", "_t_events", "results"}

\* a class: ProcessEvents and the subclasses, by what they override
Class(indexed, lint, traceless) ==
    [indexed |-> indexed, lint |-> lint, traceless |-> traceless]

ProcessEvents == Class(FALSE, FALSE, FALSE)

ProcessIndexedEvents == Class(TRUE, FALSE, FALSE)

ProcessEventsWithLINT == Class(FALSE, TRUE, FALSE)

ProcessIndexedEventsWithLINT == Class(TRUE, TRUE, FALSE)

ProcessEventsWithoutTraces == Class(FALSE, FALSE, TRUE)

ProcessIndexedEventsWithoutTraces == Class(TRUE, FALSE, TRUE)

Classes == {ProcessEvents, ProcessIndexedEvents, ProcessEventsWithLINT,
            ProcessIndexedEventsWithLINT, ProcessEventsWithoutTraces,
            ProcessIndexedEventsWithoutTraces}

\* the arguments the harness passes
SourceArgs == {"None"} \cup TableNames

DestinationArgs == {"None", "_events", "results", "_t_events"}

Limits == {<<>>, <<5>>, <<7>>}

IndexLists == {<<0, 2, 5>>, <<2, 1>>}

MaxCalls == 2

\* direct calls of process_traces are followed on objects made before this
\* many runs: a run overwrites self.limit in its first statement (l.54), so
\* what a direct call leaves behind never reaches a later run
MaxRunsBeforeDirect == 1

Exists(g, name) == name \in TableNames /\ g[name] # NoTable

\* a handle after the table named `name` is removed, or renamed to `new`
AfterRemove(handle, name) == IF handle = name THEN "closed" ELSE handle

AfterRename(handle, name, new) == IF handle = name THEN new ELSE handle

NoObject ==
    [made |-> FALSE, cls |-> ProcessEvents, indexes |-> <<>>,
     source_arg |-> "None", source |-> "closed", limit |-> <<>>,
     destination |-> "unset", tmp_events |-> "unset", ncalls |-> 0]

NoCall == [destination |-> "None", overwrite |-> FALSE, limit |-> <<>>]

Returned == [kind |-> "returned", step |-> "publish", error |-> "none"]

Raised(step, error) == [kind |-> "raised", step |-> step, error |-> error]

NoHistory ==
    [at_call |-> [n \in TableNames |-> NoTable], source_at_call |-> "closed",
     source_arg |-> "None", nth |-> 0, cls |-> ProcessEvents,
     indexes |-> <<>>, unspecified |-> TRUE,
     at_publish |-> [n \in TableNames |-> NoTable], staged |-> NoTable,
     previous |-> [destination |-> "None", overwrite |-> FALSE,
                   kind |-> "none"]]

\* _get_source were it to take events for the default whatever the group
get_source_events(g, source) ==
    IF source = "None" THEN "events" ELSE source

\* ProcessEvents._get_source: the name of the table it returns
get_source(g, source) ==
    IF source = "None"
    THEN IF Exists(g, "_events") THEN "_events" ELSE "events"
    ELSE source

\* ProcessEvents.__init__ and ProcessIndexedEvents.__init__; a source that
\* is not in the group raises and makes no object
Construct(cls, source, indexes) ==
    /\ pc = "idle"
    /\ Exists(group, get_source(group, source))
    /\ obj' = [made |-> TRUE, cls |-> cls,
               indexes |-> IF cls.indexed THEN indexes ELSE <<>>,
               source_arg |-> source, source |-> get_source(group, source),
               limit |-> <<>>, destination |-> "unset",
               tmp_events |-> "unset", ncalls |-> 0]
    /\ upc' = "off"
    /\ input' = <<>>
    /\ output' = <<>>
    /\ UNCHANGED <<group, pc, call, outcome, calls, hist>>
    /\ UNCHANGED timing

\* _check_destination were it to take every call for an overwriting one
check_destination_overwriting(g, source, destination, overwrite) ==
    IF destination = "_events" THEN Raised("check", "RuntimeError")
    ELSE LET dest == IF destination = "None" THEN "events" ELSE destination IN
         IF source = "closed" THEN Raised("check", "ClosedNodeError")
         ELSE [kind |-> "accepted", step |-> "check", error |-> dest]

\* ProcessEvents._check_destination: the destination it accepts, or the
\* error it raises
check_destination(g, source, destination, overwrite) ==
    IF destination = "_events" THEN Raised("check", "RuntimeError")
    ELSE LET dest == IF destination = "None" THEN "events" ELSE destination IN
         IF source = "closed" THEN Raised("check", "ClosedNodeError")
         ELSE IF source # dest /\ Exists(g, dest) /\ ~overwrite
         THEN Raised("check", "RuntimeError")
         ELSE [kind |-> "accepted", step |-> "check", error |-> dest]

\* process_and_store_results up to and with _check_destination
Call(destination, overwrite, limit, max) ==
    /\ pc = "idle"
    /\ obj.made
    /\ calls < max
    /\ LET checked == check_destination(group, obj.source, destination,
                                        overwrite)
       IN  /\ IF checked.kind = "accepted"
              THEN /\ pc' = "create"
                   /\ obj' = [obj EXCEPT !.limit = limit,
                                         !.destination = checked.error,
                                         !.ncalls = @ + 1]
                   /\ outcome' = [kind |-> "running", step |-> "check",
                                  error |-> "none"]
              ELSE /\ pc' = "idle"
                   /\ obj' = [obj EXCEPT !.limit = limit, !.ncalls = @ + 1]
                   /\ outcome' = checked
    /\ call' = [destination |-> destination, overwrite |-> overwrite,
                limit |-> limit]
    /\ calls' = calls + 1
    /\ hist' = [at_call |-> group, source_at_call |-> obj.source,
                source_arg |-> obj.source_arg, nth |-> obj.ncalls + 1,
                cls |-> obj.cls, indexes |-> obj.indexes,
                unspecified |-> /\ obj.source_arg = "None"
                                /\ \/ calls = 0
                                   \/ /\ hist.unspecified
                                      /\ outcome.kind = "returned",
                at_publish |-> group, staged |-> NoTable,
                previous |-> [destination |-> call.destination,
                              overwrite |-> call.overwrite,
                              kind |-> IF calls = 0 THEN "none"
                                       ELSE outcome.kind]]
    /\ UNCHANGED group
    /\ upc' = "off"
    /\ input' = <<>>
    /\ output' = <<>>
    /\ UNCHANGED timing

\* _copy_events_into_table were it to copy no column
CopyRow_nothing(cols, row) == DefaultRow

\* the row of the results table that takes the columns of a source row
CopyRow(cols, row) ==
    IF cols = "processed" THEN row ELSE [DefaultRow EXCEPT !.ev = row.ev]

\* ProcessEvents._create_results_table: _create_empty_results_table, which
\* removes a table named _t_events and creates it anew with default rows,
\* then _copy_events_into_table
CreateResultsTable ==
    /\ pc = "create"
    /\ LET length == IF Truthy(obj.limit) THEN obj.limit[1]
                     ELSE Len(group[obj.source].rows)
           source == IF Exists(group, "_t_events")
                     THEN AfterRemove(obj.source, "_t_events")
                     ELSE obj.source
           empty == [r \in 1..length |-> DefaultRow]
           from == IF source = "closed" THEN NoTable ELSE group[source]
           copied == Slice(from.rows, obj.limit)
           target == Len(Slice(empty, obj.limit))
           rows == [r \in 1..length |->
                       IF r <= target THEN CopyRow(from.cols, copied[r])
                       ELSE DefaultRow]
           failed == source = "closed" \/ Len(copied) < target
       IN  /\ obj' = [obj EXCEPT !.source = source,
                                 !.tmp_events = "_t_events"]
           /\ IF failed
              THEN /\ group' = [group EXCEPT !["_t_events"] =
                                   [cols |-> "processed", rows |-> empty]]
                   /\ pc' = "idle"
                   /\ outcome' = Raised("copy",
                          IF source = "closed" THEN "ClosedNodeError"
                          ELSE "ValueError")
              ELSE /\ group' = [group EXCEPT !["_t_events"] =
                                   [cols |-> "processed", rows |-> rows]]
                   /\ pc' = "traces"
                   /\ UNCHANGED outcome
    /\ UNCHANGED <<call, calls, hist>>
    /\ UNCHANGED <<timing, units>>

\* the events that process_traces of the class reads from the source: the
\* rows under self.limit, or those at self.indexes; [ok |-> FALSE] with the
\* error when the source is removed or an index is not a row of it
events_of_process_traces(g, o) ==
    IF o.source = "closed"
    THEN [ok |-> FALSE, error |-> "ClosedNodeError", events |-> <<>>]
    ELSE IF ~o.cls.indexed
    THEN [ok |-> TRUE, error |-> "none",
          events |-> Slice(g[o.source].rows, o.limit)]
    ELSE IF \E j \in 1..Len(o.indexes) :
                o.indexes[j] < 0 \/ o.indexes[j] >= Len(g[o.source].rows)
    THEN [ok |-> FALSE, error |-> "IndexError", events |-> <<>>]
    ELSE [ok |-> TRUE, error |-> "none",
          events |-> [j \in 1..Len(o.indexes) |->
                         g[o.source].rows[o.indexes[j] + 1]]]

\* what process_traces of the object o returns: the timings of its events,
\* or the error it raises
timings_of_process_traces(g, o) ==
    LET read == events_of_process_traces(g, o)
        processed == process_traces_from_event_list(o.cls.lint, read.events)
    IN  IF ~read.ok THEN [ok |-> FALSE, error |-> read.error, timings |-> <<>>]
        ELSE IF ~processed.ok
        THEN [ok |-> FALSE, error |-> "ValueError", timings |-> <<>>]
        ELSE [ok |-> TRUE, error |-> "none", timings |-> processed.timings]

\* a call of the public process_traces from outside a run:
\* ProcessEvents.process_traces(limit) keeps a limit that is not None or 0
\* in self.limit and returns the timings of the rows under self.limit;
\* ProcessIndexedEvents.process_traces() takes no limit and returns the
\* timings of the rows at the indexes.  No table is written.
ProcessTraces(limit) ==
    /\ pc = "idle"
    /\ obj.made
    /\ calls < MaxRunsBeforeDirect
    /\ obj.cls.indexed => limit = <<>>
    /\ obj' = [obj EXCEPT !.limit = IF ~obj.cls.indexed /\ Truthy(limit)
                                    THEN limit ELSE @]
    /\ upc' = "process_traces"
    /\ output' = timings_of_process_traces(group, obj')
    /\ UNCHANGED <<group, pc, call, outcome, calls, hist>>
    /\ UNCHANGED <<timing, input>>

\* no class were to override _store_results_from_traces with "pass"
fakes_storing_never(cls) == FALSE

\* ProcessEventsWithoutTraces._store_results_from_traces, "pass", is the
\* method of the class
fakes_storing(cls) == cls.traceless

\* the rows of a table after the first k of "for event, (t1, t2, t3, t4) in
\* izip(table.itersequence(indexes), timings): ...; event.update()"
UpdatedRows(rows, indexes, timings, k) ==
    [r \in 1..Len(rows) |->
        LET hits == {j \in 1..k : indexes[j] + 1 = r} IN
        IF hits = {} THEN rows[r]
        ELSE [rows[r] EXCEPT !.t =
                 timings[CHOOSE j \in hits : \A i \in hits : i <= j]]]

\* _store_results_from_traces of the class of obj (ProcessEvents,
\* ProcessIndexedEvents, ProcessEventsWithoutTraces) with its process_traces
StoreResultsFromTraces ==
    /\ pc = "traces"
    /\ LET table == group[obj.tmp_events]
           source == group[obj.source]
           indexes == obj.indexes
           inSource == \A j \in 1..Len(indexes) :
                           indexes[j] >= 0 /\ indexes[j] < Len(source.rows)
           events == IF obj.cls.indexed
                     THEN [j \in 1..Len(indexes) |-> source.rows[indexes[j] + 1]]
                     ELSE Slice(source.rows, obj.limit)
           processed == process_traces_from_event_list(obj.cls.lint, events)
           timings == processed.timings
           \* the first index that is not a row of the results table
           outside == {j \in 1..Len(indexes) : indexes[j] >= Len(table.rows)}
           firstOutside == CHOOSE j \in outside : \A i \in outside : j <= i
           Fail(rows, error) ==
               /\ group' = [group EXCEPT ![obj.tmp_events].rows = rows]
               /\ pc' = "idle"
               /\ outcome' = Raised("traces", error)
           Pass(rows) ==
               /\ group' = [group EXCEPT ![obj.tmp_events].rows = rows]
               /\ pc' = "particles"
               /\ UNCHANGED outcome
       IN  IF fakes_storing(obj.cls) THEN Pass(table.rows)
           ELSE IF obj.cls.indexed
           THEN IF ~inSource THEN Fail(table.rows, "IndexError")
                ELSE IF ~processed.ok THEN Fail(table.rows, "ValueError")
                ELSE IF outside # {}
                THEN \E k \in 0..(firstOutside - 1) :
                         Fail(UpdatedRows(table.rows, indexes, timings, k),
                              "IndexError")
                ELSE Pass(UpdatedRows(table.rows, indexes, timings,
                                      Len(indexes)))
           ELSE IF ~processed.ok THEN Fail(table.rows, "ValueError")
                ELSE IF Len(timings) = 0 THEN Fail(table.rows, "IndexError")
                ELSE IF Len(timings) # Len(table.rows)
                THEN Fail(table.rows, "ValueError")
                ELSE Pass([r \in 1..Len(table.rows) |->
                              [table.rows[r] EXCEPT !.t = timings[r]]])
    /\ UNCHANGED <<obj, call, calls, hist>>
    /\ UNCHANGED <<timing, units>>

\* _store_number_of_particles were it to leave the columns as they are
store_number_of_particles_skipped(rows, n_particles) == rows

\* "getattr(table.cols, col)[:] = n_particles[:, idx]" for the four columns
store_number_of_particles(rows, n_particles) ==
    [r \in 1..Len(rows) |-> [rows[r] EXCEPT !.n = n_particles[r]]]

\* ProcessEvents._store_number_of_particles
StoreNumberOfParticles ==
    /\ pc = "particles"
    /\ LET table == group[obj.tmp_events]
           source == group[obj.source]
           column == [r \in 1..Len(source.rows) |->
                         event_of(source.rows[r].ev).pulseheights]
           processed == process_pulseheights(column, obj.limit)
           n_particles == processed.n_particles
       IN  IF ~processed.ok \/ Len(n_particles) # Len(table.rows)
           THEN /\ pc' = "idle"
                /\ outcome' = Raised("particles",
                       IF ~processed.ok THEN processed.error
                       ELSE "ValueError")
                /\ UNCHANGED <<group, hist>>
           ELSE /\ pc' = "move_source"
                /\ group' = [group EXCEPT ![obj.tmp_events].rows =
                                store_number_of_particles(table.rows,
                                                          n_particles)]
                /\ hist' = [hist EXCEPT !.at_publish = group',
                                        !.staged = group'[obj.tmp_events]]
                /\ UNCHANGED outcome
    /\ UNCHANGED <<obj, call, calls>>
    /\ UNCHANGED <<timing, units>>

\* _move_results_table_into_destination were it to leave the source where
\* it is
moved_source_never(source, destination) == FALSE

\* "if self.source.name == 'events':", the source that the publish moves
\* out of the way
moved_source(source, destination) == source = "events"

\* _move_results_table_into_destination, its first statement: the source
\* is renamed to _events (PyTables raises when the name is taken)
MoveSource ==
    /\ pc = "move_source"
    /\ IF moved_source(obj.source, obj.destination)
       THEN IF Exists(group, "_events")
            THEN /\ pc' = "idle"
                 /\ outcome' = Raised("publish", "NodeError")
                 /\ UNCHANGED <<group, obj>>
            ELSE /\ group' = [group EXCEPT !["_events"] = group[obj.source],
                                           ![obj.source] = NoTable]
                 /\ obj' = [obj EXCEPT
                       !.source = "_events",
                       !.tmp_events = AfterRename(@, obj.source, "_events")]
                 /\ pc' = "move_remove"
                 /\ UNCHANGED outcome
       ELSE /\ pc' = "move_remove"
            /\ UNCHANGED <<group, obj, outcome>>
    /\ UNCHANGED <<call, calls, hist>>
    /\ UNCHANGED <<timing, units>>

\* _move_results_table_into_destination, its second statement: a table
\* that has the name of the destination is removed
RemoveDestination ==
    /\ pc = "move_remove"
    /\ IF Exists(group, obj.destination)
       THEN /\ group' = [group EXCEPT ![obj.destination] = NoTable]
            /\ obj' = [obj EXCEPT
                  !.source = AfterRemove(@, obj.destination),
                  !.tmp_events = AfterRemove(@, obj.destination)]
       ELSE UNCHANGED <<group, obj>>
    /\ pc' = "move_rename"
    /\ UNCHANGED <<call, outcome, calls, hist>>
    /\ UNCHANGED <<timing, units>>

\* _move_results_table_into_destination, its last statement: the results
\* table is renamed to the destination (a removed table raises)
RenameResults ==
    /\ pc = "move_rename"
    /\ IF obj.tmp_events = "closed" \/ Exists(group, obj.destination)
       THEN /\ outcome' = Raised("publish",
                   IF obj.tmp_events = "closed" THEN "ClosedNodeError"
                   ELSE "NodeError")
            /\ UNCHANGED <<group, obj>>
       ELSE /\ group' = [group EXCEPT
                  ![obj.destination] = group[obj.tmp_events],
                  ![obj.tmp_events] = NoTable]
            /\ obj' = [obj EXCEPT
                  !.tmp_events = obj.destination,
                  !.source = AfterRename(@, obj.tmp_events, obj.destination)]
            /\ outcome' = Returned
    /\ pc' = "idle"
    /\ UNCHANGED <<call, calls, hist>>
    /\ UNCHANGED <<timing, units>>

\* a group with an events table, no object yet
Init ==
    /\ \E ids \in InitialRows :
           group = [n \in TableNames |->
                       IF n = "events" THEN RawTable(ids) ELSE NoTable]
    /\ obj = NoObject
    /\ pc = "idle"
    /\ call = NoCall
    /\ outcome = [kind |-> "none", step |-> "none", error |-> "none"]
    /\ calls = 0
    /\ hist = NoHistory
    /\ trace = <<>>
    /\ baseline = 0
    /\ tpc = "off"
    /\ t_nearest = NaN
    /\ t_lint = NaN
    /\ upc = "off"
    /\ input = <<>>
    /\ output = <<>>

\* calls of process_and_store_results on ProcessEvents objects, one after
\* the other on the same object or on a new one
Next ==
    \/ \E source \in SourceArgs : Construct(ProcessEvents, source, <<>>)
    \/ \E destination \in DestinationArgs, overwrite \in BOOLEAN,
          limit \in Limits :
            Call(destination, overwrite, limit, MaxCalls)
    \/ \E limit \in Limits : ProcessTraces(limit)
    \/ CreateResultsTable
    \/ StoreResultsFromTraces
    \/ StoreNumberOfParticles
    \/ MoveSource
    \/ RemoveDestination
    \/ RenameResults

Spec == Init /\ [][Next]_vars

\* the table that process_and_store_results of ProcessEvents, without a
\* limit, makes of the raw rows `ids`
ProcessedTable(ids) ==
    [cols |-> "processed",
     rows |-> [r \in 1..Len(ids) |->
         [ev |-> ids[r],
          t |-> process_traces_from_event_list(FALSE,
                    RawTable(ids).rows).timings[r],
          n |-> process_pulseheights(
                    [k \in 1..Len(ids) |-> EventData[ids[k]].pulseheights],
                    <<>>).n_particles[r]]]]

\* a group with a raw events table, or the group that a first run with the
\* destination results leaves: the results there, the raw rows in _events
InitVariants ==
    /\ \/ \E ids \in InitialRows :
              group = [n \in TableNames |->
                          IF n = "events" THEN RawTable(ids) ELSE NoTable]
       \/ group = [n \in TableNames |->
                      IF n = "results" THEN ProcessedTable(GoodRows)
                      ELSE IF n = "_events" THEN RawTable(GoodRows)
                      ELSE NoTable]
    /\ obj = NoObject
    /\ pc = "idle"
    /\ call = NoCall
    /\ outcome = [kind |-> "none", step |-> "none", error |-> "none"]
    /\ calls = 0
    /\ hist = NoHistory
    /\ trace = <<>>
    /\ baseline = 0
    /\ tpc = "off"
    /\ t_nearest = NaN
    /\ t_lint = NaN
    /\ upc = "off"
    /\ input = <<>>
    /\ output = <<>>

\* the limits of the one call: none, 0, below, at and above the 6 rows of
\* GoodRows and CorruptRows
VariantLimits == Limits \cup {<<0>>, <<6>>}

\* one call of process_and_store_results on an object of any of the classes
VariantsNext ==
    \/ \E cls \in Classes, source \in SourceArgs, indexes \in IndexLists :
            calls = 0 /\ Construct(cls, source, indexes)
    \/ \E destination \in DestinationArgs, overwrite \in BOOLEAN,
          limit \in VariantLimits :
            Call(destination, overwrite, limit, 1)
    \/ \E limit \in VariantLimits : ProcessTraces(limit)
    \/ CreateResultsTable
    \/ StoreResultsFromTraces
    \/ StoreNumberOfParticles
    \/ MoveSource
    \/ RemoveDestination
    \/ RenameResults

SpecVariants == InitVariants /\ [][VariantsNext]_vars

-----------------------------------------------------------------------------
(* The timing harness: every waveform over a few sample values, up to a    *)
(* length, with a few baselines, handed to both strategies.                *)

MaxTraceLen == 3

SampleValues == {-20, 0, 10, 25, 40, 50}

Baselines == {0, 5}

Waveforms == UNION {[1..n -> SampleValues] : n \in 0..MaxTraceLen}

TimingInit ==
    /\ trace \in Waveforms
    /\ baseline \in Baselines
    /\ tpc = "input"
    /\ t_nearest = NaN
    /\ t_lint = NaN
    /\ upc = "off"
    /\ input = <<>>
    /\ output = <<>>
    /\ group = [n \in TableNames |-> NoTable]
    /\ obj = NoObject
    /\ pc = "off"
    /\ call = NoCall
    /\ outcome = [kind |-> "none", step |-> "none", error |-> "none"]
    /\ calls = 0
    /\ hist = NoHistory

ReconstructNearest ==
    /\ tpc = "input"
    /\ t_nearest' = reconstruct_time_from_trace(trace, baseline)
    /\ tpc' = "nearest"
    /\ UNCHANGED <<trace, baseline, t_lint>>
    /\ UNCHANGED <<pipeline, units>>

ReconstructLINT ==
    /\ tpc = "nearest"
    /\ t_lint' = LINT_reconstruct_time_from_trace(trace, baseline)
    /\ tpc' = "both"
    /\ UNCHANGED <<trace, baseline, t_nearest>>
    /\ UNCHANGED <<pipeline, units>>

TimingNext == ReconstructNearest \/ ReconstructLINT

SpecTiming == TimingInit /\ [][TimingNext]_vars

-----------------------------------------------------------------------------
(* The harness of the per-event readers of traces: an event, then          *)
(* _reconstruct_time_from_traces or get_traces_for_event on it.            *)

\* the pulseheights of a slot: below and above ADC_THRESHOLD
SlotPulseheights == {10, 205}

\* the traces entry of a slot: none recorded, a blob that decodes, one that
\* does not
SlotTraces == {-1, 0, 4}

TraceEvents == [baseline : {<<0, 5, 0, 5>>},
                pulseheights : [Detectors -> SlotPulseheights],
                traces : [Detectors -> SlotTraces]]

\* the variables of the other harnesses, at rest
PipelineAtRest ==
    /\ group = [n \in TableNames |-> NoTable]
    /\ obj = NoObject
    /\ pc = "off"
    /\ call = NoCall
    /\ outcome = Returned
    /\ calls = 0
    /\ hist = NoHistory

TimingAtRest ==
    /\ trace = <<>>
    /\ baseline = 0
    /\ tpc = "off"
    /\ t_nearest = NaN
    /\ t_lint = NaN

TracesInit ==
    /\ PipelineAtRest
    /\ TimingAtRest
    /\ upc = "event"
    /\ input \in TraceEvents
    /\ output = <<>>

\* self._reconstruct_time_from_traces(event)
ReconstructTimeFromTraces ==
    /\ upc = "event"
    /\ upc' = "reconstruct_time_from_traces"
    /\ output' = [read |-> traces_read_by_reconstruct(input, 1),
                  result |-> reconstruct_time_from_event(FALSE, input)]
    /\ UNCHANGED <<pipeline, timing, input>>

\* self.get_traces_for_event(event)
GetTracesForEvent ==
    /\ upc = "event"
    /\ upc' = "get_traces_for_event"
    /\ output' = [read |-> traces_read_by_get_traces(input, 1),
                  result |-> get_traces_for_event(input)]
    /\ UNCHANGED <<pipeline, timing, input>>

TracesNext == ReconstructTimeFromTraces \/ GetTracesForEvent

SpecTraces == TracesInit /\ [][TracesNext]_vars

-----------------------------------------------------------------------------
(* The harness of the peak finder: a population of pulseheights, one       *)
(* column per detector, then _pulse_gauss_fit, _process_pulseheights or    *)
(* getFitParameters on it.  A column is one of a few profiles of ten       *)
(* pulseheights, named after what the peak finder makes of the column, or  *)
(* one of fifteen.                                                         *)

Profile(low, high) ==
    [r \in 1..10 |-> IF r <= 5 THEN low ELSE high]

\* fitted: the peak window is 200 wide
WideProfile == Profile(195, 295)

\* fitted: the peak window is 100 wide
FittedProfile == Profile(205, 205)

\* the peak window is 80 wide
Window80Profile == Profile(155, 285)

\* the peak window is 60 wide
Window60Profile == Profile(155, 265)

\* the peak window is 40 wide
Window40Profile == Profile(135, 205)

\* the peak window is 20 wide
Window20Profile == Profile(155, 215)

\* the mean pulseheight is below 100
LowProfile == Profile(55, 55)

\* no five bins in a row hold five pulseheights: the smoothed histogram and
\* its derivative are 0 everywhere
SparseProfile == [r \in 1..10 |-> 155 + 100 * ((r - 1) \div 2)]

\* the smoothed derivative is 0 at the bins 9 and 10: the double of bin 9
\* is 0.0 and that of bin 10 is 5.6e-17, what 0.4 + 0.0 + 0.2 - 0.4 - 0.2
\* leaves, so the last scan sees a rise there and the peak window is 20
\* wide, not 100
RoundedProfile ==
    <<145, 155, 155, 165, 175, 225, 225, 225, 225, 225, 245, 245, 265, 265,
      265>>

DetectorProfiles == {FittedProfile, Window20Profile, LowProfile, SparseProfile}

Profiles == DetectorProfiles \cup {WideProfile, Window80Profile,
                                   Window60Profile, Window40Profile,
                                   RoundedProfile}

\* the array of pulseheights with the columns `columns`
Population(columns) ==
    [r \in 1..Len(columns[1]) |-> [d \in 1..Len(columns) |-> columns[d][r]]]

\* the populations of four detectors, and those of one
PeakPopulations ==
    {Population(columns) : columns \in [Detectors -> DetectorProfiles]}
        \cup {Population(<<p>>) : p \in Profiles}

PeakInit ==
    /\ PipelineAtRest
    /\ TimingAtRest
    /\ upc = "population"
    /\ input \in PeakPopulations
    /\ output = <<>>

\* self._pulse_gauss_fit(pulseheights, bins), bins as _process_pulseheights
\* makes them
PulseGaussFit ==
    /\ upc = "population"
    /\ upc' = "pulse_gauss_fit"
    /\ output' = pulse_gauss_fit(input, PulseheightBins)
    /\ UNCHANGED <<pipeline, timing, input>>

\* self._process_pulseheights() on a source whose pulseheights are the
\* population, without limit
ProcessPulseheights ==
    /\ upc = "population"
    /\ upc' = "process_pulseheights"
    /\ output' = process_pulseheights(input, <<>>)
    /\ UNCHANGED <<pipeline, timing, input>>

\* (bins[:-1] + bins[1:]) / 2 of _pulse_gauss_fit
pulsecount_of(bins) ==
    Array([k \in 1..(Len(bins) - 1) |-> (bins[k] + bins[k + 1]) \div 2])

\* np.histogram(pulsecounts[:, i], bins=bins)[0] of _pulse_gauss_fit, i from 1
occurence_of(pulsecounts, bins, i) ==
    histogram([r \in 1..Len(pulsecounts) |-> pulsecounts[r][i]], bins)

\* self.getFitParameters(pulsecount, occurence) on the histogram of
\* detector d: y_smoothed as it is after the cut at 120, the bins of the
\* three scans, and what is returned
GetFitParameters(d) ==
    /\ upc = "population"
    /\ upc' = "getFitParameters"
    /\ LET x == pulsecount_of(PulseheightBins)
           y == occurence_of(input, PulseheightBins, d)
       IN  output' = [detector |-> d,
                      y_smoothed |-> cut_at_120(x, smooth_forward(y, 5)),
                      len |-> Len(y_diff_smoothed(x, y)),
                      scans |-> extremum_scans(
                                    comparable(y_diff_smoothed(x, y))),
                      result |-> getFitParameters(x, y)]
    /\ UNCHANGED <<pipeline, timing, input>>

PeakNext ==
    \/ PulseGaussFit
    \/ ProcessPulseheights
    \/ \E d \in Detectors : d <= Len(input[1]) /\ GetFitParameters(d)

SpecPeak == PeakInit /\ [][PeakNext]_vars

-----------------------------------------------------------------------------
(* The harness of the trace decoder: a blob, then _get_trace on it.  The   *)
(* blob is the stored form of a trace, or the stream of any short text, or *)
(* no stream at all.                                                       *)

MaxTextLen == 4

TraceValues == {-12, 0, 7, 34, 105}

Characters == {"0", "1", "-", "+", " ", ",", "x"}

TracesToStore == UNION {[1..n -> TraceValues] : n \in 0..MaxTraceLen}

Texts == UNION {[1..n -> Characters] : n \in 0..MaxTextLen}

DecodeInit ==
    /\ PipelineAtRest
    /\ TimingAtRest
    /\ upc = "blob"
    /\ \/ \E values \in TracesToStore, trailing \in BOOLEAN :
              input = [blob |-> compress(text_of_trace(values, trailing)),
                       of |-> <<values>>, trailing |-> trailing]
       \/ \E text \in Texts :
              input = [blob |-> compress(text), of |-> <<>>,
                       trailing |-> FALSE]
       \/ input = [blob |-> NoStream, of |-> <<>>, trailing |-> FALSE]
    /\ output = <<>>

\* self._get_trace(idx), blobs[idx] being the blob
GetTrace ==
    /\ upc = "blob"
    /\ upc' = "get_trace"
    /\ output' = get_trace_of_blob(input.blob)
    /\ UNCHANGED <<pipeline, timing, input>>

SpecDecode == DecodeInit /\ [][GetTrace]_vars

-----------------------------------------------------------------------------
(* What the calls are checked against *)

\* the destination name of the last call
Destination == IF call.destination = "None" THEN "events" ELSE call.destination

\* the source table as the last call found it
SourceAtCall ==
    IF hist.source_at_call = "closed" THEN NoTable
    ELSE hist.at_call[hist.source_at_call]

\* the last call is over and ended as `kind`
Ended(kind) == pc = "idle" /\ calls > 0 /\ outcome.kind = kind

\* the t1..t4 that the class writes for the event numbered ev
timings_of_event(lint, ev) ==
    [d \in Detectors |->
        to_column_value(reconstruct_time_from_traces(lint, ev).timings[d])]

\* the n1..n4 that _store_number_of_particles writes for the rows of the
\* source under the limit of the last call
ParticlesOfSource ==
    process_pulseheights(
        [r \in 1..Len(SourceAtCall.rows) |->
            EventData[SourceAtCall.rows[r].ev].pulseheights],
        call.limit).n_particles

Defaults == [d \in Detectors |-> DefaultValue]

-----------------------------------------------------------------------------
(* C1 *)

\* the last call names the reserved destination, or a table that exists
\* and is not the source without asking to overwrite it
Rejected ==
    /\ calls > 0
    /\ \/ call.destination = "_events"
       \/ /\ Exists(hist.at_call, Destination)
          /\ Destination # hist.source_at_call
          /\ ~call.overwrite

\* C1: a call with destination '_events', or with a destination that names
\* an existing table other than the source while overwrite is false, raises
\* in the validation, before any table of the group is created, removed,
\* renamed or written: the group is as it was before the call.
C1_RejectedBeforeAnyChange ==
    Rejected =>
        /\ pc = "idle"
        /\ outcome.kind = "raised" /\ outcome.step = "check"
        /\ group = hist.at_call

\* a second call on results without overwrite, after a first one put a
\* table there and moved the source to _events
C1_Witness ==
    /\ Rejected
    /\ calls = 2
    /\ call.destination = "results"
    /\ hist.source_at_call = "_events"
    /\ Len(group["results"].rows) = 5
    /\ outcome.error = "RuntimeError"

\* the reserved name is rejected with overwrite too
C1_WitnessReserved ==
    /\ Rejected
    /\ call.destination = "_events"
    /\ call.overwrite
    /\ outcome.error = "RuntimeError"

-----------------------------------------------------------------------------
(* C2 *)

\* the last two calls had destination None and overwrite False, and the
\* first of them returned
TwiceByDefault ==
    /\ calls >= 2
    /\ hist.previous = [destination |-> "None", overwrite |-> FALSE,
                        kind |-> "returned"]
    /\ call.destination = "None"
    /\ ~call.overwrite

SecondCallRejected ==
    /\ pc = "idle"
    /\ outcome = Raised("check", "RuntimeError")
    /\ group["events"] = hist.at_call["events"]

\* C2 as stated: the second of two calls with destination None and
\* overwrite False, on the same object or on any new one, fails with the
\* destination error and leaves the events table as the first call made it.
C2_Original == TwiceByDefault => SecondCallRejected

\* C2 amended: the same, the second call being made on the same object or
\* on a new one that was constructed without a source name; nothing in the
\* group changes.
C2_Amended ==
    (TwiceByDefault /\ (hist.nth >= 2 \/ hist.source_arg = "None")) =>
        SecondCallRejected /\ group = hist.at_call

\* the second call on a new object with the default source, which is the
\* table _events the first call left
C2_Witness ==
    /\ TwiceByDefault
    /\ hist.nth = 1
    /\ hist.source_arg = "None"
    /\ hist.source_at_call = "_events"
    /\ outcome = Raised("check", "RuntimeError")
    /\ Len(group["events"].rows) = 6

\* the second call on the object that made the first
C2_WitnessSameObject ==
    /\ TwiceByDefault
    /\ hist.nth = 2
    /\ outcome = Raised("check", "RuntimeError")

-----------------------------------------------------------------------------
(* C3 *)

\* C3: after every run that returns and whose source had the name of the
\* destination, whatever that name, the rows of the source are unchanged
\* under '_events' and the destination holds the new results table.
C3_SourceKept ==
    (Ended("returned") /\ hist.source_at_call = Destination) =>
        /\ group["_events"] = SourceAtCall
        /\ group[Destination] = hist.staged

-----------------------------------------------------------------------------
(* C4 *)

\* C4: after a run that fails in the timing or the particle-count step,
\* for every source and destination that the validation accepted, the
\* source table and the table that had the name of the destination are as
\* they were before the call.
C4_OnlyStagingTouched ==
    (Ended("raised") /\ outcome.step \in {"traces", "particles"}) =>
        /\ group[hist.source_at_call] = SourceAtCall
        /\ Exists(hist.at_call, Destination) =>
               group[Destination] = hist.at_call[Destination]

-----------------------------------------------------------------------------
(* C5 *)

\* the publish is between two of its operations, or one of them failed
InPublish ==
    \/ pc \in {"move_remove", "move_rename"}
    \/ Ended("raised") /\ outcome.step = "publish"

\* C5: in no state between the operations of the publish, and in no state
\* that a failed operation of it leaves, is the destination name free when
\* a table had it before the publish began.
C5_DestinationNeverFree ==
    (InPublish /\ Exists(hist.at_publish, Destination)) =>
        Exists(group, Destination)

-----------------------------------------------------------------------------
(* C6 *)

\* C6: when process_and_store_results returns, whatever the destination
\* the validation accepted, the destination holds the staging table as this
\* run filled it (the columns of the source, t1..t4 and n1..n4, for the
\* rows of the source under the limit) and no table '_t_events' remains.
C6_Published ==
    Ended("returned") =>
        /\ ~Exists(group, "_t_events")
        /\ group[Destination] = hist.staged
        /\ group[Destination].cols = "processed"
        /\ Len(group[Destination].rows) = Len(Slice(SourceAtCall.rows, call.limit))
        /\ \A r \in 1..Len(group[Destination].rows) :
              /\ group[Destination].rows[r].ev = SourceAtCall.rows[r].ev
              /\ group[Destination].rows[r].t =
                     timings_of_event(hist.cls.lint, SourceAtCall.rows[r].ev)
              /\ group[Destination].rows[r].n = ParticlesOfSource[r]

\* a run with a limit that replaces the table results of an earlier run
C6_Witness ==
    /\ Ended("returned")
    /\ calls = 2
    /\ call = [destination |-> "results", overwrite |-> TRUE, limit |-> <<5>>]
    /\ Len(hist.at_call["results"].rows) = 6
    /\ Len(group["results"].rows) = 5
    /\ group["results"].rows[1].t[1] = [kind |-> "num", num |-> 5000, den |-> 1000]
    /\ hist.at_call["results"].rows[6].t[4] = [kind |-> "num", num |-> -999, den |-> 1]
    /\ group["results"].rows[1].n[1].ph = 205

-----------------------------------------------------------------------------
(* C7 *)

\* a run of an indexed class that reconstructs timings has returned
IndexedReturned ==
    /\ Ended("returned")
    /\ hist.cls.indexed
    /\ ~hist.cls.traceless

\* the source row that the j-th index names
IndexedRow(j) == SourceAtCall.rows[hist.indexes[j] + 1]

\* C7: index-subset processing with k indexes makes a results table of
\* exactly k rows, the j-th of which has the timing and the particle-count
\* columns that full processing gives source row indexes[j].  The code
\* breaks it: ProcessIndexedEvents inherits _create_empty_results_table and
\* _copy_events_into_table, which size and fill the table from the whole
\* source, so indexes [0, 2, 5] on six rows publish six rows.
C7_ExactlyKRows ==
    IndexedReturned =>
        /\ Len(group[Destination].rows) = Len(hist.indexes)
        /\ \A j \in 1..Len(hist.indexes) :
              j <= Len(group[Destination].rows) =>
                  /\ group[Destination].rows[j].t =
                         timings_of_event(hist.cls.lint, IndexedRow(j).ev)
                  /\ group[Destination].rows[j].n =
                         ParticlesOfSource[hist.indexes[j] + 1]

\* C7, what the code does instead: the results table has a row for every
\* row of the source under the limit; row indexes[j] of it has the timing
\* columns that full processing gives source row indexes[j], a row that no
\* index names has the timing columns the copy gave it, and every row has
\* the particle-count columns of full processing.
C7_EveryRowOfTheSource ==
    IndexedReturned =>
        /\ Len(group[Destination].rows) =
               Len(Slice(SourceAtCall.rows, call.limit))
        /\ \A j \in 1..Len(hist.indexes) :
              group[Destination].rows[hist.indexes[j] + 1].t =
                  timings_of_event(hist.cls.lint, IndexedRow(j).ev)
        /\ \A r \in 1..Len(group[Destination].rows) :
              /\ group[Destination].rows[r].ev = SourceAtCall.rows[r].ev
              /\ group[Destination].rows[r].n = ParticlesOfSource[r]
              /\ (\A j \in 1..Len(hist.indexes) : hist.indexes[j] + 1 # r) =>
                     group[Destination].rows[r].t =
                         CopyRow(SourceAtCall.cols, SourceAtCall.rows[r]).t

\* indexes [0, 2, 5] on a raw source of six rows: six rows, the second of
\* them without timings, the third with those of its event
C7_Witness ==
    /\ IndexedReturned
    /\ hist.cls = ProcessIndexedEvents
    /\ hist.indexes = <<0, 2, 5>>
    /\ SourceAtCall.cols = "raw"
    /\ Len(group[Destination].rows) = 6
    /\ group[Destination].rows[2].t = Defaults
    /\ group[Destination].rows[3].t = timings_of_event(FALSE, 1)
    /\ group[Destination].rows[3].t[1] = [kind |-> "num", num |-> 5000, den |-> 1000]

-----------------------------------------------------------------------------
(* C8 *)

\* every row of the published table has the default in t1..t4 and the
\* n1..n4 of trace-based processing of the same source with the same limit
TimingsLeftParticlesStored ==
    \A r \in 1..Len(group[Destination].rows) :
        /\ group[Destination].rows[r].t = Defaults
        /\ group[Destination].rows[r].n = ParticlesOfSource[r]

\* C8 as stated: traceless processing never writes t1..t4, so that every
\* row keeps the default in them, and n1..n4 are those of trace-based
\* processing of the same source with the same limit.
C8_Original ==
    (Ended("returned") /\ hist.cls.traceless) => TimingsLeftParticlesStored

\* C8 amended: the same for a source that has no columns t1..t4 of its
\* own; the columns of a source that has them are copied with the others.
C8_Amended ==
    (Ended("returned") /\ hist.cls.traceless /\ SourceAtCall.cols = "raw") =>
        TimingsLeftParticlesStored

\* an indexed traceless run on a raw source
C8_Witness ==
    /\ Ended("returned")
    /\ hist.cls = ProcessIndexedEventsWithoutTraces
    /\ SourceAtCall.cols = "raw"
    /\ Len(group[Destination].rows) = 5
    /\ group[Destination].rows[1].t = Defaults
    /\ group[Destination].rows[1].n[1].ph = 205

-----------------------------------------------------------------------------
(* C9 *)

\* the indexes, from 0, of the samples at or above baseline + 20
CrossingIndexes == {i \in 0..(Len(trace) - 1) : trace[i + 1] >= baseline + 20}

\* C9: the nearest-sample strategy returns i x 2.5 ns for the least index i
\* with trace[i] >= baseline + 20, and not-a-number exactly when no sample
\* reaches baseline + 20 (the empty waveform included).
C9_NearestSample ==
    tpc \in {"nearest", "both"} =>
        /\ IsNan(t_nearest) <=> CrossingIndexes = {}
        /\ CrossingIndexes # {} =>
              \E i \in CrossingIndexes :
                  /\ \A j \in CrossingIndexes : i <= j
                  /\ t_nearest = [kind |-> "num", num |-> 2500 * i, den |-> 1]

\* a crossing after two samples below threshold, one of them just below it
C9_Witness ==
    /\ tpc = "nearest"
    /\ trace = <<10, 0, 25>>
    /\ baseline = 5
    /\ t_nearest = [kind |-> "num", num |-> 5000, den |-> 1]

-----------------------------------------------------------------------------
(* C10 *)

\* the waveform stays at one value below threshold for its first n samples
\* and then jumps to twice the threshold
Synthetic(n) ==
    LET threshold == baseline + 20 IN
    /\ Len(trace) > n
    /\ \A i \in 1..n : trace[i] = trace[1] /\ trace[i] < threshold
    /\ trace[n + 1] = 2 * threshold

SamplePeriod == [kind |-> "num", num |-> 2500, den |-> 1]

NearestAndLINTAgree(n) ==
    /\ t_nearest = [kind |-> "num", num |-> 2500 * n, den |-> 1]
    /\ IsNum(t_lint)
    /\ Leq(t_lint, t_nearest)
    /\ Less(Minus(t_nearest, t_lint), SamplePeriod)

\* C10 as stated: for every N >= 0 the nearest-sample strategy returns N
\* sample periods and the interpolated time is at most that and less than
\* one sample period below it.
C10_Original ==
    tpc = "both" =>
        \A n \in 0..MaxTraceLen : Synthetic(n) => NearestAndLINTAgree(n)

\* C10 but for N = 0: for every N >= 1 (and a threshold that is not
\* negative, so that twice the threshold reaches it) the two strategies
\* are as C10 has them.
C10_FromOneSample ==
    tpc = "both" =>
        \A n \in 1..MaxTraceLen :
            (Synthetic(n) /\ baseline + 20 >= 0) => NearestAndLINTAgree(n)

\* two flat samples, the jump, and an interpolated time strictly inside the
\* last sample period
C10_Witness ==
    /\ tpc = "both"
    /\ baseline = 5
    /\ Synthetic(2)
    /\ t_nearest = [kind |-> "num", num |-> 5000, den |-> 1]
    /\ Less(t_lint, t_nearest)

-----------------------------------------------------------------------------
\* C11: the trace decoder is never invoked with a negative blob index: for
\* every slot of an event whose traces entry is negative, whatever its
\* pulseheight, neither _reconstruct_time_from_traces nor
\* get_traces_for_event reads a blob for that slot.
ReadersOfTraces == {"reconstruct_time_from_traces", "get_traces_for_event"}

C11_NoNegativeIndexDecoded ==
    upc \in ReadersOfTraces =>
        \A k \in 1..Len(output.read) : input.traces[output.read[k].slot] >= 0

\* _reconstruct_time_from_traces has decoded the last blob for a slot that
\* has no trace, and returned a time for it
C11_Witness ==
    /\ upc = "reconstruct_time_from_traces"
    /\ input.traces[4] = -1
    /\ input.pulseheights[4] = 205
    /\ \E k \in 1..Len(output.read) : output.read[k] = [slot |-> 4, idx |-> -1]
    /\ output.result.ok
    /\ output.result.timings[4] = Num(2500, 1)

\* get_traces_for_event, for its part, skips every slot without a trace
C11_GetTracesSkipsNegative ==
    upc = "get_traces_for_event" =>
        \A k \in 1..Len(output.read) : output.read[k].idx >= 0

-----------------------------------------------------------------------------
(* The peak finder on the populations of the harness *)

\* what the pass of the loop of _pulse_gauss_fit for detector d makes of the
\* population
PassOf(d) == pulse_gauss_fit_detector(input, PulseheightBins, d)

\* the loop of _pulse_gauss_fit reaches detector k: each earlier pass has
\* appended an MPV
Reaches(k) ==
    /\ k \in 1..Len(input[1])
    /\ \A j \in 1..(k - 1) : PassOf(j).kind = "mpv"

\* the peak window of detector k is too narrow, and the loop gets to it
NarrowAt(k) == Reaches(k) /\ PassOf(k).kind = "return"

\* C12: when the peak window found for detector k is too narrow, the peak
\* finder does not raise and makes a null fit for detector k only: it still
\* returns one MPV per detector, the detectors after k are evaluated, and
\* the particle counts of all the detectors are computed from them.
C12_NullFitForOneDetector ==
    \A k \in Detectors :
        /\ upc = "pulse_gauss_fit" /\ Len(input[1]) = 4 /\ NarrowAt(k)
              => output.kind = "mpv" /\ Len(output.mpv) = 4
        /\ upc = "process_pulseheights" /\ Len(input[1]) = 4 /\ NarrowAt(k)
              => output.ok

\* detector 2 is too narrow and detector 3 too low: _pulse_gauss_fit has
\* returned the null fit of detector 2 in place of the list of MPVs, without
\* a look at detector 3
C12_Witness ==
    /\ upc = "pulse_gauss_fit"
    /\ input = Population(<<FittedProfile, Window20Profile,
                            LowProfile, FittedProfile>>)
    /\ output = [kind |-> "return", width |-> 10]

\* what does hold: at the first detector that is too narrow _pulse_gauss_fit
\* does not raise, it returns the width with the null fit, and
\* _process_pulseheights raises on the division by it
C12_ReturnsAtFirstNarrow ==
    \A k \in Detectors :
        /\ upc = "pulse_gauss_fit" /\ NarrowAt(k)
              => output.kind = "return" /\ output.width <= 40
        /\ upc = "process_pulseheights" /\ NarrowAt(k) => ~output.ok

-----------------------------------------------------------------------------
\* (pulsecount * occurence).sum() / occurence.sum() of detector d
MeanOf(d) ==
    average_pulsecount(
        Array([k \in 1..(Len(PulseheightBins) - 1) |->
                  (PulseheightBins[k] + PulseheightBins[k + 1]) \div 2]),
        histogram([r \in 1..Len(input) |-> input[r][d]], PulseheightBins))

SomeMeanBelow100 == \E d \in 1..Len(input[1]) : MeanOf(d) < 100

CalibrationError == [kind |-> "raise", error |-> "ValueError"]

\* C13: whenever the mean pulse value of some detector is below 100, the
\* peak finder raises the calibration error and returns no null fit,
\* whatever the populations of the other detectors and the position of that
\* detector among the four.
C13_LowMeanAlwaysRaises ==
    upc = "pulse_gauss_fit" /\ SomeMeanBelow100 => output = CalibrationError

\* the mean of detector 2 is below 100 behind a detector that is too narrow:
\* the null fit has been returned
C13_Witness ==
    /\ upc = "pulse_gauss_fit"
    /\ input = Population(<<Window20Profile, LowProfile,
                            FittedProfile, FittedProfile>>)
    /\ MeanOf(2) < 100
    /\ output.kind = "return"

\* the same behind a detector whose scans run off the histogram: IndexError
C13_WitnessIndexError ==
    /\ upc = "pulse_gauss_fit"
    /\ input = Population(<<SparseProfile, LowProfile,
                            FittedProfile, FittedProfile>>)
    /\ output = [kind |-> "raise", error |-> "IndexError"]

\* what does hold: the calibration error is raised when the loop gets to a
\* detector whose mean is below 100
C13_RaisedWhenReached ==
    upc = "pulse_gauss_fit"
        /\ (\E d \in 1..Len(input[1]) : Reaches(d) /\ MeanOf(d) < 100)
        => output = CalibrationError

-----------------------------------------------------------------------------
(* C14 *)

\* the rows that a run under the limit of the last call processes
RowsToProcess ==
    IF call.limit = <<>> THEN Len(SourceAtCall.rows)
    ELSE IF call.limit[1] < Len(SourceAtCall.rows) THEN call.limit[1]
    ELSE Len(SourceAtCall.rows)

\* a run of ProcessEvents itself has returned
PlainReturned == Ended("returned") /\ hist.cls = ProcessEvents

\* C14: for every limit (None, 0, below, at or above the length of the
\* source), a run of ProcessEvents that returns has published one row per
\* processed event: min(limit, length of the source) rows under a limit,
\* as many as the source has without one, row r with the source columns of
\* row r of the source and the t1..t4 and n1..n4 derived from it.
C14_OneRowPerProcessedEvent ==
    PlainReturned =>
        /\ group[Destination].cols = "processed"
        /\ Len(group[Destination].rows) = RowsToProcess
        /\ \A r \in 1..RowsToProcess :
              /\ group[Destination].rows[r].ev = SourceAtCall.rows[r].ev
              /\ group[Destination].rows[r].t =
                     timings_of_event(FALSE, SourceAtCall.rows[r].ev)
              /\ group[Destination].rows[r].n =
                     [d \in Detectors |->
                         Ratio(EventData[SourceAtCall.rows[r].ev].pulseheights[d],
                               ParticlesOfSource[r][d].mpv)]

\* a run under a limit below the length of the source has returned
C14_Witness ==
    /\ PlainReturned
    /\ call.limit = <<5>>
    /\ Len(SourceAtCall.rows) = 6
    /\ Len(group[Destination].rows) = 5
    /\ group[Destination].rows[5].ev = 1
    /\ group[Destination].rows[5].t[1] = Num(5000, 1000)

\* a run under a limit that is the length of the source has returned
C14_WitnessAtLength ==
    /\ PlainReturned
    /\ call.limit = <<6>>
    /\ Len(SourceAtCall.rows) = 6
    /\ Len(group[Destination].rows) = 6
    /\ group[Destination].rows[6].ev = 3

\* a run without limit has returned
C14_WitnessNoLimit ==
    /\ PlainReturned
    /\ call.limit = <<>>
    /\ Len(group[Destination].rows) = 6

\* a run with the limit 0, or with a limit above the length of the source,
\* does not return: it raises once the validation has accepted it
C14_ZeroAndLargeLimitsRaise ==
    /\ Ended("returned") /\ hist.cls = ProcessEvents
           => call.limit = <<>> \/ call.limit[1] \in 1..Len(SourceAtCall.rows)
    /\ pc = "particles" /\ hist.cls = ProcessEvents
           => call.limit = <<>> \/ call.limit[1] \in 1..Len(SourceAtCall.rows)

-----------------------------------------------------------------------------
(* C15 *)

\* a call has been made, it and every call before it on an object built
\* without a source, every call before it having returned
UnspecifiedSoFar == calls > 0 /\ hist.unspecified

\* the events tables that a group starts with
OriginalTables == {RawTable(ids) : ids \in InitialRows}

\* C15: after any sequence of runs that returned, each with the source
\* unspecified (on the same object or on a new one, whatever the accepted
\* destination), a run reads its events from the original unprocessed table
\* ('_events' when it exists, else 'events'), never from the results of an
\* earlier run, and the table '_events', once it exists, keeps its rows.
C15_ReadsTheOriginal ==
    UnspecifiedSoFar =>
        /\ hist.source_at_call =
               IF Exists(hist.at_call, "_events") THEN "_events" ELSE "events"
        /\ SourceAtCall \in OriginalTables
        /\ Exists(hist.at_call, "_events")
               => /\ group["_events"] = hist.at_call["_events"]
                  /\ hist.at_publish["_events"] = hist.at_call["_events"]
        /\ Exists(group, "_events") => group["_events"] = SourceAtCall

\* the second run in a row without a source, the first having published
\* its results as events: the second has read _events and replaced events
C15_Witness ==
    /\ Ended("returned")
    /\ calls = 2
    /\ UnspecifiedSoFar
    /\ hist.previous.destination = "None"
    /\ call = [destination |-> "None", overwrite |-> TRUE, limit |-> <<5>>]
    /\ hist.source_at_call = "_events"
    /\ hist.at_call["events"].cols = "processed"
    /\ Len(hist.at_call["events"].rows) = 6
    /\ Len(group["events"].rows) = 5
    /\ group["_events"] = RawTable(GoodRows)

\* the same on a new object, the first run having published as results
C15_WitnessNewObject ==
    /\ Ended("returned")
    /\ calls = 2
    /\ UnspecifiedSoFar
    /\ hist.nth = 1
    /\ hist.previous.destination = "results"
    /\ hist.source_at_call = "_events"
    /\ group["_events"] = RawTable(GoodRows)

-----------------------------------------------------------------------------
(* C17 *)

\* a run has returned whose source did not have the name of the destination
ReturnedBesideSource ==
    /\ Ended("returned")
    /\ hist.source_at_call # "closed"
    /\ hist.source_at_call # Destination

\* C17: when the name of the source differs from the destination, a run
\* that returns leaves the source under its own name with its rows as they
\* were; the source is renamed to '_events' only when it has the name of
\* the destination at the publish.
C17_SourceLeftInPlace ==
    ReturnedBesideSource =>
        /\ group[hist.source_at_call] = SourceAtCall
        /\ ~Exists(hist.at_call, "_events") => ~Exists(group, "_events")

\* a run from events to results has returned: the table events is gone, its
\* rows are under _events
C17_Witness ==
    /\ ReturnedBesideSource
    /\ hist.source_at_call = "events"
    /\ call.destination = "results"
    /\ ~Exists(hist.at_call, "_events")
    /\ ~Exists(group, "events")
    /\ group["_events"] = SourceAtCall
    /\ group["results"] = hist.staged

\* what does hold: a source with another name than events or the
\* destination stays where it is, and the rows of the source are kept, under
\* its name or under _events
C17_SourceMovedIffNamedEvents ==
    ReturnedBesideSource =>
        /\ hist.source_at_call # "events"
               => group[hist.source_at_call] = SourceAtCall
        /\ hist.source_at_call = "events"
               => ~Exists(group, "events") /\ group["_events"] = SourceAtCall

-----------------------------------------------------------------------------
(* C18 *)

\* what getFitParameters returns for the one detector of the population
WindowOfOne ==
    getFitParameters(pulsecount_of(PulseheightBins),
                     occurence_of(input, PulseheightBins, 1))

\* _pulse_gauss_fit has been applied to the population of one detector, and
\* has got a peak window from getFitParameters
WindowLocated ==
    /\ upc = "pulse_gauss_fit"
    /\ Len(input[1]) = 1
    /\ ~(MeanOf(1) < 100)
    /\ WindowOfOne.ok

\* C18, as claimed: the peak finder takes the null-fit branch exactly when
\* the width of the peak window, its maximum minus its minimum as
\* getFitParameters returns them, is <= 40, and otherwise goes on to the fit
\* seeded with that width.
C18_Original ==
    WindowLocated =>
        LET width == WindowOfOne.maxRange - WindowOfOne.minRange IN
        /\ output.kind = "return" <=> width <= 40
        /\ output.kind = "mpv" => output.mpv[1].initial = <<16, WindowOfOne.peak, width>>

\* C18, amended: the peak finder takes the null-fit branch exactly when the
\* peak returned by getFitParameters minus the window minimum, which is half
\* of the window maximum minus the window minimum, is <= 40 (a window of 80
\* or less), and otherwise goes on to the fit, seeded with that half width.
C18_Amended ==
    WindowLocated =>
        LET width == WindowOfOne.peak - WindowOfOne.minRange IN
        /\ 2 * width = WindowOfOne.maxRange - WindowOfOne.minRange
        /\ output.kind \in {"return", "mpv"}
        /\ output.kind = "return" <=> width <= 40
        /\ output.kind = "return" => output.width = width
        /\ output.kind = "mpv" =>
               /\ output.mpv[1].initial = <<16, WindowOfOne.peak, width>>
               /\ \A k \in 1..Len(output.mpv[1].x) :
                      /\ output.mpv[1].x[k] >= WindowOfOne.minRange
                      /\ output.mpv[1].x[k] <= WindowOfOne.maxRange

\* a window of 80, from 140 to 220: the null fit, with the width 40
C18_Witness ==
    /\ WindowLocated
    /\ input = Population(<<Window80Profile>>)
    /\ WindowOfOne.maxRange - WindowOfOne.minRange = 80
    /\ output = [kind |-> "return", width |-> 40]

\* the window that the rounding of the smoothed derivative closes at 20:
\* the null fit, with the width 10
C18_WitnessRounded ==
    /\ WindowLocated
    /\ input = Population(<<RoundedProfile>>)
    /\ WindowOfOne.maxRange - WindowOfOne.minRange = 20
    /\ output = [kind |-> "return", width |-> 10]

\* a window of 100: the fit, seeded with the width 50
C18_WitnessFitted ==
    /\ WindowLocated
    /\ input = Population(<<FittedProfile>>)
    /\ WindowOfOne.maxRange - WindowOfOne.minRange = 100
    /\ output.kind = "mpv"
    /\ output.mpv[1].initial = <<16, 200, 50>>

-----------------------------------------------------------------------------
(* C19 *)

\* C19: for every smoothed derivative that getFitParameters derives from a
\* histogram (the constant, all-zero and monotone ones with the others),
\* each of the three scans returns a bin of the sequence and none reads at
\* or past its length.
C19_ScansStayInside ==
    upc = "getFitParameters" =>
        \A k \in 1..3 : output.scans[k] \in 0..(output.len - 1)

\* ten pulseheights spread two by two over far bins: the smoothed histogram
\* and the derivative are 0 everywhere, the first scan has run to
\* y[len(y)] and raised
C19_Witness ==
    /\ upc = "getFitParameters"
    /\ input = Population(<<SparseProfile>>)
    /\ \A i \in 1..Len(output.y_smoothed) : output.y_smoothed[i] = 0
    /\ output.scans = <<-1, -1, -1>>
    /\ ~output.result.ok

\* what does hold: a scan that finds its rise or fall returns a bin inside
\* the sequence, at or after the bin it started from, and getFitParameters
\* returns exactly when the three of them do
C19_ScansInsideWhenFound ==
    upc = "getFitParameters" =>
        /\ \A k \in 1..3 : output.scans[k] \in -1..(output.len - 2)
        /\ output.result.ok <=> \A k \in 1..3 : output.scans[k] >= 0
        /\ output.result.ok =>
               /\ output.scans[1] <= output.scans[2]
               /\ output.scans[2] <= output.scans[3]

-----------------------------------------------------------------------------
(* C20 *)

\* the pulse value of bin i (from 1) of the histogram
PulseValue(i) == pulsecount_of(PulseheightBins)[i]

\* C20: after the forward smoothing of getFitParameters, every smoothed
\* value of a bin whose pulse value is past 120 is zero, for every
\* histogram.
C20_ZeroPast120 ==
    upc = "getFitParameters" =>
        \A i \in 1..Len(output.y_smoothed) :
            PulseValue(i) > 120 => output.y_smoothed[i] = 0

\* ten pulseheights of 205: the smoothed values of the bins 165..205 are
\* still 2 after the cut, that of the bin 125 alone is set to 0
C20_Witness ==
    /\ upc = "getFitParameters"
    /\ input = Population(<<FittedProfile>>)
    /\ PulseValue(21) = 205
    /\ output.y_smoothed[21] = 2
    /\ output.y_smoothed[17] = 2
    /\ output.y_smoothed[13] = 0

\* what does hold: the cut sets one value to 0, that of the first bin above
\* 120, and leaves the moving averages of the other bins as they are
C20_OneValueZeroed ==
    upc = "getFitParameters" =>
        LET y == occurence_of(input, PulseheightBins, output.detector) IN
        /\ Len(output.y_smoothed) = Len(y) - 5
        /\ PulseValue(13) = 125
        /\ \A i \in 1..Len(output.y_smoothed) :
              output.y_smoothed[i] =
                  IF i = 13 THEN 0 ELSE SumTo(y, i, i + 4) \div 5

-----------------------------------------------------------------------------
(* C16 *)

\* the fields of the text of the blob
FieldsOfInput == split(input.blob.text)

\* the field is a decimal integer as int() reads it
IsInteger(x) == field_of(x).kind = "int"

\* C16: decoding the compressed text of a sequence of integers, written
\* with or without one comma after the last value, gives the sequence back
\* in order; one empty field at the end of a text is dropped and no other,
\* and any other empty field, any field that is no integer and any blob
\* that does not decompress make the decode fail.
C16_RoundTrip ==
    upc = "get_trace" =>
        /\ input.of # <<>> => output = [ok |-> TRUE, trace |-> input.of[1]]
        /\ ~input.blob.zlib => ~output.ok
        /\ input.blob.zlib =>
               LET n == Len(FieldsOfInput)
                   kept == IF FieldsOfInput[n] = <<>> THEN n - 1 ELSE n
               IN  /\ output.ok <=> \A k \in 1..kept : IsInteger(FieldsOfInput[k])
                   /\ output.ok =>
                          /\ Len(output.trace) = kept
                          /\ \A k \in 1..kept :
                                 output.trace[k] = field_of(FieldsOfInput[k]).val

\* "34,-12,105," has been decoded
C16_Witness ==
    /\ upc = "get_trace"
    /\ input.of = << <<34, -12, 105>> >>
    /\ input.trailing
    /\ input.blob.text = <<"3", "4", ",", "-", "1", "2", ",",
                           "1", "0", "5", ",">>
    /\ output = [ok |-> TRUE, trace |-> <<34, -12, 105>>]

\* the decode of "1,," has failed on the empty field that is left
C16_WitnessTwoCommas ==
    /\ upc = "get_trace"
    /\ input.blob.text = <<"1", ",", ",">>
    /\ ~output.ok

\* the decode of "1,x" has failed
C16_WitnessNoInteger ==
    /\ upc = "get_trace"
    /\ input.blob.text = <<"1", ",", "x">>
    /\ ~output.ok

-----------------------------------------------------------------------------
(* C21 *)

\* the first crossing is at the index i, from 0
FirstCrossingAt(i) ==
    i \in CrossingIndexes /\ \A j \in CrossingIndexes : i <= j

\* i sample periods
Periods(i) == [kind |-> "num", num |-> 2500 * i, den |-> 1]

\* the interpolated time is no time after the start of the waveform:
\* infinite, negative, or not-a-number although a sample crosses
Anomalous ==
    \/ t_lint.kind = "inf"
    \/ IsNum(t_lint) /\ Less(t_lint, Periods(0))
    \/ IsNan(t_lint) /\ CrossingIndexes # {}

\* a first crossing at an index i >= 1 has y0 < threshold <= y1 and a time
\* in ((i - 1) x 2.5 ns, i x 2.5 ns]
InteriorCrossingsInterpolated ==
    \A i \in 1..(Len(trace) - 1) :
        FirstCrossingAt(i) =>
            /\ trace[i] < baseline + 20
            /\ baseline + 20 <= trace[i + 1]
            /\ IsNum(t_lint)
            /\ Less(Periods(i - 1), t_lint)
            /\ Leq(t_lint, Periods(i))

\* C21 as stated: the linear-interpolation strategy returns not-a-number
\* exactly when no sample reaches baseline + 20; a first crossing at an
\* index i >= 1 has y0 < threshold <= y1 and a finite time in
\* ((i - 1) x 2.5 ns, i x 2.5 ns]; an infinite, not-a-number or negative
\* time arises only from a crossing at index 0.
C21_Original ==
    tpc = "both" =>
        /\ IsNan(t_lint) <=> CrossingIndexes = {}
        /\ InteriorCrossingsInterpolated
        /\ Anomalous => FirstCrossingAt(0)

\* C21 but for the sentinel: no crossing gives not-a-number, a first
\* crossing at i >= 1 is interpolated as C21 has it, every anomalous time
\* comes from a crossing at index 0, and not-a-number with a crossing is
\* the crossing at index 0 of a waveform whose first and last samples are
\* both at the threshold.
C21_FromIndexOne ==
    tpc = "both" =>
        /\ CrossingIndexes = {} => IsNan(t_lint)
        /\ InteriorCrossingsInterpolated
        /\ Anomalous => FirstCrossingAt(0)
        /\ IsNan(t_lint) /\ CrossingIndexes # {} =>
               /\ trace[1] = baseline + 20
               /\ trace[Len(trace)] = baseline + 20

\* one sample, at the threshold: the crossing is at index 0, y0 is the
\* sample itself, 0 / 0 has given not-a-number
C21_Witness ==
    /\ tpc = "both"
    /\ trace = <<25>>
    /\ baseline = 5
    /\ FirstCrossingAt(0)
    /\ IsNan(t_lint)

\* a crossing at index 2 between 10 and 40, threshold 25: 1.5 periods
C21_WitnessInterior ==
    /\ tpc = "both"
    /\ trace = <<0, 10, 40>>
    /\ baseline = 5
    /\ FirstCrossingAt(2)
    /\ IsNum(t_lint)
    /\ t_lint.num = 3750 * t_lint.den

=============================================================================
